---------------------------- MODULE Spec2Model ----------------------------
(***************************************************************************)
(* The UAVCAN/Serial transport engine (pyuavcan.transport.serial,          *)
(* SerialTransport) as a state machine.                                    *)
(*                                                                         *)
(* Concurrency domains of the code:                                        *)
(*   S  the event loop: get_*_session, close, the session finalizers,      *)
(*      _handle_received_item_and_update_stats and the coroutine           *)
(*      _send_transfer between two awaits;                                 *)
(*   R  the reader thread (_reader_thread_func);                           *)
(*   W  the executor thread that runs serial_port.write.                   *)
(***************************************************************************)
EXTENDS Integers, Sequences, FiniteSets, TLC

(***************************************************************************)
(* Bounds of the model                                                     *)
(***************************************************************************)
\* The event loop's clock (loop.time()) runs from 0 to MaxTime.
MaxTime == 1
\* Session objects constructed over the life of the engine.
MaxSessions == 2
\* Frames of one outgoing transfer.
MaxFrames == 2
\* Chunks the reader thread reads from the port.
MaxReads == 1
\* Bytes of the payload of a frame given to the codec.
MaxPayload == 2
\* Bytes the stream parser is given before a compiled frame.
MaxGarbage == 2

(***************************************************************************)
(* Values                                                                  *)
(***************************************************************************)
\* Python's None where a node-ID is optional.
None == "None"
NodeIds == {"n1", "n2"}
OptNodeIds == NodeIds \cup {None}

\* One message subject and one service: the engine only compares data
\* specifiers for equality and asks whether one is a ServiceDataSpecifier.
DataSpecifiers == {"msg", "srv"}
IsService(ds) == ds = "srv"

\* pyuavcan.transport.InputSessionSpecifier(data_specifier, remote_node_id)
InputSpecifiers == {<<"msg", None>>, <<"msg", "n2">>, <<"srv", None>>}
\* pyuavcan.transport.OutputSessionSpecifier(data_specifier, remote_node_id)
OutputSpecifiers == {<<"msg", None>>, <<"srv", "n2">>}

\* A received frame, as far as the engine reads it: message frames from and
\* to every node-ID (None: anonymous source, broadcast destination) and a
\* service frame from n2 to n1.  A service frame always has a source
\* node-ID (SerialFrame.__post_init__).
ReceivedFrames ==
    {f \in [data_specifier : DataSpecifiers, source_node_id : OptNodeIds,
            destination_node_id : OptNodeIds] :
        IsService(f.data_specifier) =>
            f.source_node_id = "n2" /\ f.destination_node_id = "n1"}

\* An outgoing frame, as far as the engine reads it: the length of its
\* payload and the number of bytes of header, payload and CRC that
\* compile_into escapes.  The frames of a transfer: a first frame whose
\* payload is longer than a third of the initial buffer, then short ones.
FrameAt(k) ==
    IF k = 1 THEN [payload |-> 400, escaped |-> 3] ELSE [payload |-> 0, escaped |-> 0]

\* Outgoing frames about the sizes where the grow step begins to act: no
\* payload, the longest payload the initial buffer is kept for (341 bytes),
\* the shortest it grows for, and a payload of 1000 bytes; every byte of a
\* payload and three bytes of the header and the CRC are escaped.
SizedFrames ==
    {[payload |-> 0, escaped |-> 0], [payload |-> 341, escaped |-> 344],
     [payload |-> 342, escaped |-> 345], [payload |-> 1000, escaped |-> 1003]}
SizedTransfers == UNION {[1 .. n -> SizedFrames] : n \in 1 .. MaxFrames}

\* The frame sequences handed to a send handler, the empty one included.
Transfers == {[k \in 1 .. n |-> FrameAt(k)] : n \in 0 .. MaxFrames}
Deadlines == 1 .. MaxTime

\* The coroutines that invoke a send handler, one invocation each: t1 sends
\* any transfer, t2 competes with a single-frame transfer (with the default
\* MTU every transfer is a single frame).
Tasks == {"t1", "t2"}
TransfersOf(t) == IF t = "t1" THEN Transfers ELSE {<<FrameAt(1)>>}

\* Constructor arguments: (local_node_id, service_transfer_multiplier).
Configurations == {<<"n1", 2>>, <<None, 1>>}

\* len(compile_into(buffer)): two delimiters, header, payload, payload CRC,
\* and one more byte per escaped byte.
HEADER_SIZE == 32
CRC_SIZE_BYTES == 4
CompiledLength(fr) == 2 + HEADER_SIZE + fr.payload + CRC_SIZE_BYTES + fr.escaped

INITIAL_BUFFER_SIZE == 1024

VARIABLES
    local_node_id,                \* self._local_node_id
    service_transfer_multiplier,  \* self._service_transfer_multiplier
    closed,                       \* self._closed
    port_open,                    \* self._serial_port.is_open
    write_timeout,                \* self._serial_port.write_timeout, <<>> while unset
    port_lock,                    \* self._port_lock: the task holding it, or None
    serialization_buffer,         \* self._serialization_buffer: [size, holds]
    input_registry,               \* self._input_registry: specifier -> session
    output_registry,              \* self._output_registry: specifier -> session
    sessions,                     \* the session objects constructed so far
    statistics,                   \* self._statistics
    now,                          \* loop.time()
    task,                         \* the coroutines that send
    link,                         \* the write calls the port has received, in order
    reader,                       \* the reader thread
    posted,                       \* callbacks queued by call_soon_threadsafe
    last_call,                    \* the latest call of the public API and its outcome
    close_calls,                  \* close() calls so far: 0, 1, or 2 for two and more
    codec                         \* a SerialFrame on its way through compile_into and back

vars == <<local_node_id, service_transfer_multiplier, closed, port_open, write_timeout,
          port_lock, serialization_buffer, input_registry, output_registry, sessions,
          statistics, now, task, link, reader, posted, last_call, close_calls, codec>>


(***************************************************************************)
(* Initial state: the engine as __init__ leaves it                         *)
(***************************************************************************)
EmptyRegistry == [x \in {} |-> 0]

IdleTask ==
    [pc |-> "idle", handler |-> "none", frames |-> <<>>, monotonic_deadline |-> 0,
     pass |-> 0, index |-> 0, tx_ts |-> <<>>, first_tx_ts |-> <<>>,
     write_result |-> [kind |-> "none", num_written |-> 0], returns |-> <<>>,
     outcome |-> "none", result |-> <<>>]

\* A call of the public API and its outcome: the specifier it was given and
\* the session it returned or closed, or the error it raised.
NoCall == [op |-> "none", outcome |-> "none", specifier |-> <<>>, session |-> 0]
CallReturned(op, specifier, session) ==
    [op |-> op, outcome |-> "returned", specifier |-> specifier, session |-> session]
CallRaised(op, error) == [op |-> op, outcome |-> error, specifier |-> <<>>, session |-> 0]

\* No frame has been constructed, compiled or parsed.
IdleCodec ==
    [pc |-> "idle", arguments |-> <<>>, frame |-> <<>>, compiled |-> <<>>, image |-> <<>>,
     damage |-> "none", parsed |-> <<>>, garbage |-> <<>>, stream |-> <<>>,
     parser |-> [mode |-> "between", oob |-> <<>>, buffer |-> <<>>, escape |-> FALSE],
     items |-> <<>>]

NewStatistics ==
    [in_bytes |-> 0, in_frames |-> 0, in_out_of_band_bytes |-> 0,
     out_bytes |-> 0, out_frames |-> 0, out_transfers |-> 0, out_incomplete |-> 0]

Init ==
    /\ \E c \in Configurations :
        /\ local_node_id = c[1]
        /\ service_transfer_multiplier = c[2]
    /\ closed = FALSE
    /\ port_open = TRUE
    /\ write_timeout = <<>>
    /\ port_lock = None
    /\ serialization_buffer = [size |-> INITIAL_BUFFER_SIZE, holds |-> <<>>]
    /\ input_registry = EmptyRegistry
    /\ output_registry = EmptyRegistry
    /\ sessions = <<>>
    /\ statistics = NewStatistics
    /\ now = 0
    /\ task = [t \in Tasks |-> IdleTask]
    /\ link = <<>>
    /\ reader = [pc |-> "loop", in_bytes_count |-> 0, reads |-> 0, emitted |-> 0]
    /\ posted = <<>>
    /\ last_call = NoCall
    /\ close_calls = 0
    /\ codec = IdleCodec

(***************************************************************************)
(* Sessions and the two registries                                         *)
(***************************************************************************)
\* An assignment that drops the other entries of the registry.
RegisterAlone(registry, specifier, session) ==
    [s \in {specifier} |-> session]

\* registry[specifier] = session
Register(registry, specifier, session) ==
    [s \in DOMAIN registry \cup {specifier} |->
        IF s = specifier THEN session ELSE registry[s]]

\* del registry[specifier]
Unregister(registry, specifier) ==
    [s \in DOMAIN registry \ {specifier} |-> registry[s]]

\* The session objects a registry holds.
Registered(registry) == {registry[s] : s \in DOMAIN registry}

\* SerialInputSession(...) / SerialOutputSession(...): a new session object.
NewSession(kind, specifier, send_handler) ==
    [kind |-> kind, specifier |-> specifier, send_handler |-> send_handler, closes |-> 0,
     processed |-> <<>>]

\* The repeating handler for every specifier.
SendHandlerForAny(specifier) ==
    IF service_transfer_multiplier > 1
    THEN "send_transfer"
    ELSE "_send_transfer"

\* The handler get_output_session wires into a new output session.
SendHandlerFor(specifier) ==
    IF IsService(specifier[1]) /\ service_transfer_multiplier > 1
    THEN "send_transfer"
    ELSE "_send_transfer"

\* The variables neither a session operation nor close() touches.
SendState == <<write_timeout, port_lock, serialization_buffer, statistics, task, link>>
ReaderState == <<reader, posted>>
Configuration == <<local_node_id, service_transfer_multiplier>>

\* _ensure_not_closed without its test.
EnsureNothing == TRUE

\* _ensure_not_closed passes (it raises ResourceClosedError otherwise).
EnsureNotClosed == ~closed

GetInputSession(specifier) ==
    /\ IF ~EnsureNotClosed
       THEN /\ last_call' = CallRaised("get_input_session", "ResourceClosedError")
            /\ UNCHANGED <<input_registry, sessions>>
       ELSE IF specifier \in DOMAIN input_registry
       THEN /\ last_call' = CallReturned("get_input_session", specifier,
                                          input_registry[specifier])
            /\ UNCHANGED <<input_registry, sessions>>
       ELSE /\ Len(sessions) < MaxSessions
            /\ sessions' = Append(sessions, NewSession("in", specifier, "none"))
            /\ input_registry' = Register(input_registry, specifier, Len(sessions) + 1)
            /\ last_call' = CallReturned("get_input_session", specifier, Len(sessions) + 1)
    /\ UNCHANGED <<closed, port_open, output_registry, now, close_calls>>
    /\ UNCHANGED <<SendState, ReaderState, Configuration>>
    /\ UNCHANGED codec

GetOutputSession(specifier) ==
    /\ IF ~EnsureNotClosed
       THEN /\ last_call' = CallRaised("get_output_session", "ResourceClosedError")
            /\ UNCHANGED <<output_registry, sessions>>
       ELSE IF specifier \notin DOMAIN output_registry
       THEN /\ Len(sessions) < MaxSessions
            /\ sessions' = Append(sessions,
                                  NewSession("out", specifier, SendHandlerFor(specifier)))
            /\ output_registry' = Register(output_registry, specifier, Len(sessions) + 1)
            /\ last_call' = CallReturned("get_output_session", specifier, Len(sessions) + 1)
       ELSE /\ last_call' = CallReturned("get_output_session", specifier,
                                          output_registry[specifier])
            /\ UNCHANGED <<output_registry, sessions>>
    /\ UNCHANGED <<closed, port_open, input_registry, now, close_calls>>
    /\ UNCHANGED <<SendState, ReaderState, Configuration>>
    /\ UNCHANGED codec

\* Both registries, as the finalizers see them.
Registries == [input |-> input_registry, output |-> output_registry]

\* A finalizer that deletes the specifier from both registries.
FinalizerOfBoth(registries, specifier) ==
    [input |-> [s \in DOMAIN registries.input \ {specifier} |-> registries.input[s]],
     output |-> [s \in DOMAIN registries.output \ {specifier} |-> registries.output[s]]]

\* The finalizer closure of get_input_session: del self._input_registry[specifier]
InputFinalizer(registries, specifier) ==
    [registries EXCEPT !.input = Unregister(@, specifier)]

\* The finalizer closure of get_output_session: del self._output_registry[specifier]
OutputFinalizer(registries, specifier) ==
    [registries EXCEPT !.output = Unregister(@, specifier)]

\* session.close(): the session runs its finalizer the first time it is
\* closed and never again.
SessionClosed(s) == [s EXCEPT !.closes = @ + 1]
SessionClose(registries, s) ==
    IF s.closes > 0 THEN registries
    ELSE IF s.kind = "in" THEN InputFinalizer(registries, s.specifier)
    ELSE OutputFinalizer(registries, s.specifier)

\* The application closes a session it holds (closing it again does nothing).
CloseSession(n) ==
    /\ n \in 1 .. Len(sessions)
    /\ sessions[n].closes = 0
    /\ sessions' = [sessions EXCEPT ![n] = SessionClosed(@)]
    /\ LET registries == SessionClose(Registries, sessions[n])
       IN  /\ input_registry' = registries.input
           /\ output_registry' = registries.output
    /\ last_call' = CallReturned("session.close", sessions[n].specifier, n)
    /\ UNCHANGED <<closed, port_open, now, close_calls>>
    /\ UNCHANGED <<SendState, ReaderState, Configuration>>
    /\ UNCHANGED codec

\* s.close() for each session s of `closing`, one after the other.
RECURSIVE CloseAll(_, _)
CloseAll(registries, closing) ==
    IF closing = {} THEN registries
    ELSE LET n == CHOOSE x \in closing : TRUE
         IN  CloseAll(SessionClose(registries, sessions[n]), closing \ {n})

\* The sessions of close() without the output sessions.
InputSessionsToClose == Registered(input_registry)

\* (*self.input_sessions, *self.output_sessions)
SessionsToClose == Registered(input_registry) \cup Registered(output_registry)

\* close()
Close ==
    /\ closed' = TRUE
    /\ LET registries == CloseAll(Registries, SessionsToClose)
       IN  /\ sessions' = [n \in 1 .. Len(sessions) |->
                              IF n \in SessionsToClose THEN SessionClosed(sessions[n])
                              ELSE sessions[n]]
           /\ input_registry' = registries.input
           /\ output_registry' = registries.output
    /\ port_open' = FALSE
    /\ last_call' = CallReturned("close", <<>>, 0)
    /\ close_calls' = IF close_calls < 2 THEN close_calls + 1 ELSE close_calls
    /\ UNCHANGED now
    /\ UNCHANGED <<SendState, ReaderState, Configuration>>
    /\ UNCHANGED codec

\* close() as the reader thread sees it, in the two steps between which the
\* thread can run: the flag and the sessions first, the port last.
CloseRunning == last_call.op = "close" /\ last_call.outcome = "running"

\* close(): self._closed = True, and the loop that closes the sessions.
CloseSetClosed ==
    /\ ~CloseRunning
    /\ closed' = TRUE
    /\ LET registries == CloseAll(Registries, SessionsToClose)
       IN  /\ sessions' = [n \in 1 .. Len(sessions) |->
                              IF n \in SessionsToClose THEN SessionClosed(sessions[n])
                              ELSE sessions[n]]
           /\ input_registry' = registries.input
           /\ output_registry' = registries.output
    /\ last_call' = [op |-> "close", outcome |-> "running", specifier |-> <<>>, session |-> 0]
    /\ UNCHANGED <<port_open, close_calls, now>>
    /\ UNCHANGED <<SendState, ReaderState, Configuration>>
    /\ UNCHANGED codec

\* close(): if self._serial_port.is_open: self._serial_port.close()
CloseSerialPort ==
    /\ CloseRunning
    /\ port_open' = FALSE
    /\ last_call' = CallReturned("close", <<>>, 0)
    /\ close_calls' = IF close_calls < 2 THEN close_calls + 1 ELSE close_calls
    /\ UNCHANGED <<closed, input_registry, output_registry, sessions, now>>
    /\ UNCHANGED <<SendState, ReaderState, Configuration>>
    /\ UNCHANGED codec

(***************************************************************************)
(* The send path: send_transfer (the service-duplicating wrapper) and      *)
(* _send_transfer                                                          *)
(***************************************************************************)
SessionState == <<input_registry, output_registry, sessions, last_call, close_calls>>

\* The later of the two timestamps instead of the first.
Latest(a, b) == b

\* a or b, for optional timestamps: a Timestamp object is always true.
Or(a, b) == IF a # <<>> THEN a ELSE b

\* Every return counted as a transfer.
CountAsTransfer(stats, tx_ts) == [stats EXCEPT !.out_transfers = @ + 1]

\* Only the transfers that were sent counted.
CountWhenSent(stats, tx_ts) ==
    IF tx_ts # <<>>
    THEN [stats EXCEPT !.out_transfers = @ + 1]
    ELSE stats

\* The else branch of the try statement: one of the two transfer counters.
CountTransfer(stats, tx_ts) ==
    IF tx_ts # <<>>
    THEN [stats EXCEPT !.out_transfers = @ + 1]
    ELSE [stats EXCEPT !.out_incomplete = @ + 1]

\* A wrapper that gives up after a pass without a timestamp.
ReturnedUntilAborted(tk, tx_ts) ==
    LET rets == Append(tk.returns, [raised |-> "none", ts |-> tx_ts])
    IN  IF tk.handler = "send_transfer" /\ tx_ts # <<>>
                                        /\ tk.pass + 1 < service_transfer_multiplier
        THEN [tk EXCEPT !.pc = "enter", !.pass = @ + 1, !.index = 0, !.tx_ts = <<>>,
                        !.first_tx_ts = Or(@, tx_ts), !.returns = rets]
        ELSE [tk EXCEPT !.pc = "done", !.pass = @ + 1, !.index = 0, !.tx_ts = <<>>,
                        !.first_tx_ts = Or(@, tx_ts), !.returns = rets,
                        !.outcome = "returned", !.result = Or(tk.first_tx_ts, tx_ts)]

\* The task after its _send_transfer has returned tx_ts: the wrapper keeps
\* the first timestamp and starts the next pass, or the handler returns.
Returned(tk, tx_ts) ==
    LET rets == Append(tk.returns, [raised |-> "none", ts |-> tx_ts])
    IN  IF tk.handler = "send_transfer"
        THEN IF tk.pass + 1 < service_transfer_multiplier
             THEN [tk EXCEPT !.pc = "enter", !.pass = @ + 1, !.index = 0, !.tx_ts = <<>>,
                             !.first_tx_ts = Or(@, tx_ts), !.returns = rets]
             ELSE [tk EXCEPT !.pc = "done", !.pass = @ + 1, !.index = 0, !.tx_ts = <<>>,
                             !.first_tx_ts = Or(@, tx_ts), !.returns = rets,
                             !.outcome = "returned", !.result = Or(tk.first_tx_ts, tx_ts)]
        ELSE [tk EXCEPT !.pc = "done", !.index = 0, !.tx_ts = <<>>, !.returns = rets,
                        !.outcome = "returned", !.result = tx_ts]

\* The task after its _send_transfer has raised: the wrapper does not catch.
Raised(tk, error) ==
    [tk EXCEPT !.pc = "done", !.index = 0, !.tx_ts = <<>>,
               !.returns = Append(@, [raised |-> error, ts |-> <<>>]),
               !.outcome = error]

\* An except clause that raises every error as it came.
RaisedUnchanged(tk, error) == Raised(tk, error)

\* An except clause that reports every error as the engine being closed.
RaisedAsClosed(tk, error) == Raised(tk, "ResourceClosedError")

\* The except clause of _send_transfer.
Reraised(tk, error) ==
    IF closed THEN Raised(tk, "ResourceClosedError") ELSE Raised(tk, error)

\* The handler of output session n is invoked with (frames, monotonic_deadline).
StartSend(t, n, frames, monotonic_deadline) ==
    /\ task[t].pc = "idle"
    /\ n \in 1 .. Len(sessions)
    /\ sessions[n].kind = "out"
    /\ task' = [task EXCEPT ![t] =
                   [@ EXCEPT !.pc = "enter", !.handler = sessions[n].send_handler,
                             !.frames = frames, !.monotonic_deadline = monotonic_deadline]]
    /\ UNCHANGED <<closed, port_open, write_timeout, port_lock, serialization_buffer,
                   statistics, now, link>>
    /\ UNCHANGED <<SessionState, ReaderState, Configuration>>
    /\ UNCHANGED codec

\* The bytes of the latest write instead of the sum.
CountLatestBytes(stats, wr) == [stats EXCEPT !.out_bytes = wr.num_written]

\* The statistics without the bytes of the write.
CountNoBytes(stats, wr) == stats

\* self._statistics.out_bytes += num_written or 0
CountBytes(stats, wr) == [stats EXCEPT !.out_bytes = @ + wr.num_written]

\* _send_transfer from its first line to the first frame's lock acquisition.
Enter(t) ==
    /\ task[t].pc = "enter"
    /\ IF ~EnsureNotClosed
       THEN /\ task' = [task EXCEPT ![t] = Raised(@, "ResourceClosedError")]
            /\ UNCHANGED statistics
       ELSE IF task[t].frames = <<>>
       THEN /\ task' = [task EXCEPT ![t] = Returned(@, <<>>)]
            /\ statistics' = CountTransfer(statistics, <<>>)
       ELSE /\ task' = [task EXCEPT ![t] = [@ EXCEPT !.pc = "lock", !.index = 1,
                                                     !.tx_ts = <<>>]]
            /\ UNCHANGED statistics
    /\ UNCHANGED <<closed, port_open, write_timeout, port_lock, serialization_buffer,
                   now, link>>
    /\ UNCHANGED <<SessionState, ReaderState, Configuration>>
    /\ UNCHANGED codec

\* A grow step that makes room for twice the payload.
CompiledTwice(buffer, fr, holds) ==
    LET min_buffer_size == fr.payload * 2
    IN  [size |-> IF buffer.size < min_buffer_size THEN min_buffer_size ELSE buffer.size,
         holds |-> holds]

\* The buffer after the grow step and compile_into for frame `holds`.
Compiled(buffer, fr, holds) ==
    LET min_buffer_size == fr.payload * 3
    IN  [size |-> IF buffer.size < min_buffer_size THEN min_buffer_size ELSE buffer.size,
         holds |-> holds]

\* A lock that never makes a task wait.
LockIsIgnored == TRUE

\* self._port_lock is not held: acquire() returns.
LockIsFree == port_lock = None

\* The timeout without the clock.
TimeoutFromZero(tk) == tk.monotonic_deadline

\* timeout = monotonic_deadline - self._loop.time()
Timeout(tk) == tk.monotonic_deadline - now

\* async with self._port_lock: the task takes the lock, grows the buffer,
\* compiles the frame and, when the deadline allows, hands the write to the
\* executor; otherwise it leaves the loop and returns None.
AcquireLock(t) ==
    /\ task[t].pc = "lock"
    /\ LockIsFree
    /\ LET tk      == task[t]
           fr      == tk.frames[tk.index]
           buffer  == Compiled(serialization_buffer, fr, <<t, tk.pass, tk.index>>)
           timeout == Timeout(tk)
       IN  IF CompiledLength(fr) > buffer.size
           THEN \* compile_into writes past the end of the buffer
                /\ task' = [task EXCEPT ![t] = Reraised(@, "IndexError")]
                /\ serialization_buffer' = buffer
                /\ UNCHANGED <<write_timeout, port_lock, statistics, link>>
           ELSE IF timeout > 0
           THEN /\ serialization_buffer' = buffer
                /\ write_timeout' = <<timeout>>
                /\ port_lock' = t
                /\ link' = Append(link, [task |-> t, pass |-> tk.pass, index |-> tk.index,
                                         length |-> CompiledLength(fr), data |-> <<>>,
                                         result |-> "inflight", written |-> 0,
                                         resumed |-> <<>>])
                /\ task' = [task EXCEPT ![t] = [@ EXCEPT !.pc = "write"]]
                /\ UNCHANGED statistics
           ELSE /\ serialization_buffer' = buffer
                /\ task' = [task EXCEPT ![t] = Returned(@, <<>>)]
                /\ statistics' = CountTransfer(statistics, <<>>)
                /\ UNCHANGED <<write_timeout, port_lock, link>>
    /\ UNCHANGED <<closed, port_open, now>>
    /\ UNCHANGED <<SessionState, ReaderState, Configuration>>
    /\ UNCHANGED codec

\* What serial_port.write(compiled) may do with `length` bytes.
WriteResults(length) ==
    {[kind |-> "int", num_written |-> k] : k \in {length - 1, length}}
        \cup {[kind |-> "None", num_written |-> 0],
              [kind |-> "SerialTimeoutException", num_written |-> 0],
              [kind |-> "SerialException", num_written |-> 0]}

\* The link entry of the write the task has in flight.
InFlight(t) ==
    CHOOSE k \in 1 .. Len(link) : link[k].task = t /\ link[k].result = "inflight"

\* The executor thread runs serial_port.write on the bytes in the buffer:
\* any result on an open port, an exception on a closed one.
PortWrite(t) ==
    /\ task[t].pc = "write"
    /\ \E wr \in WriteResults(link[InFlight(t)].length) :
        /\ port_open \/ wr.kind = "SerialException"
        /\ link' = [link EXCEPT ![InFlight(t)] =
                       [@ EXCEPT !.result = wr.kind, !.written = wr.num_written,
                                 !.data = serialization_buffer.holds]]
        /\ task' = [task EXCEPT ![t] = [@ EXCEPT !.pc = "resume", !.write_result = wr]]
    /\ UNCHANGED <<closed, port_open, write_timeout, port_lock, serialization_buffer,
                   statistics, now>>
    /\ UNCHANGED <<SessionState, ReaderState, Configuration>>
    /\ UNCHANGED codec

\* The link entry of the write whose result the task is about to read.
Awaited(t) ==
    CHOOSE k \in 1 .. Len(link) :
        /\ link[k].task = t
        /\ link[k].pass = task[t].pass
        /\ link[k].index = task[t].index

\* A lock that stays with the task for the rest of the transfer.
LockKept(t) == t

\* A lock that is released by hand after the write, and therefore not when
\* the write raises.
LockKeptOnError(t) ==
    IF task[t].write_result.kind = "SerialException" THEN t ELSE None

\* self._port_lock when task t leaves the async with block: released.
LockReleased(t) == None

\* The coroutine resumes with the result of the write: the rest of the loop
\* body, then the next frame or the end of _send_transfer.
Resume(t) ==
    /\ task[t].pc = "resume"
    /\ LET tk     == task[t]
           wr     == tk.write_result
           length == CompiledLength(tk.frames[tk.index])
           idle   == [tk EXCEPT !.write_result = IdleTask.write_result]
       IN  /\ link' = [link EXCEPT ![Awaited(t)] =
                          [@ EXCEPT !.resumed = IF tk.index = 1 THEN <<now>> ELSE <<>>]]
           /\ port_lock' = LockReleased(t)
           /\ IF wr.kind = "SerialException"
              THEN /\ task' = [task EXCEPT ![t] = Reraised(idle, "SerialException")]
                   /\ UNCHANGED statistics
              ELSE LET tx_ts == IF wr.kind = "SerialTimeoutException"
                                THEN tk.tx_ts
                                ELSE Or(tk.tx_ts, <<now>>)
                       counted == CountBytes(statistics, wr)
                       \* len(compiled) if num_written is None else num_written
                       num_written == IF wr.kind = "None" THEN length ELSE wr.num_written
                   IN  IF num_written < length
                       THEN /\ task' = [task EXCEPT ![t] = Returned(idle, <<>>)]
                            /\ statistics' = CountTransfer(counted, <<>>)
                       ELSE IF tk.index < Len(tk.frames)
                       THEN /\ task' = [task EXCEPT ![t] =
                                          [idle EXCEPT !.pc = "lock", !.index = @ + 1,
                                                       !.tx_ts = tx_ts]]
                            /\ statistics' = [counted EXCEPT !.out_frames = @ + 1]
                       ELSE /\ task' = [task EXCEPT ![t] = Returned(idle, tx_ts)]
                            /\ statistics' =
                                   CountTransfer([counted EXCEPT !.out_frames = @ + 1], tx_ts)
    /\ UNCHANGED <<closed, port_open, write_timeout, serialization_buffer, now>>
    /\ UNCHANGED <<SessionState, ReaderState, Configuration>>
    /\ UNCHANGED codec

\* Time passes on the event loop's clock.
Tick ==
    /\ now < MaxTime
    /\ now' = now + 1
    /\ UNCHANGED <<closed, port_open>>
    /\ UNCHANGED <<SendState, SessionState, ReaderState, Configuration>>
    /\ UNCHANGED codec


(***************************************************************************)
(* The receive path: the reader thread and the callbacks it posts          *)
(***************************************************************************)
\* What the stream parser hands to its callback: a frame or a span of
\* out-of-band bytes.
FrameItem(frame) == [kind |-> "frame", frame |-> frame, length |-> 0]
OutOfBandItem(length) == [kind |-> "oob", frame |-> <<>>, length |-> length]
Items == {FrameItem(f) : f \in ReceivedFrames} \cup {OutOfBandItem(1)}

\* What one serial_port.read gives: the length of the chunk and the items
\* the parser emits while it processes the chunk.  An empty chunk is a read
\* that timed out.
Chunks ==
    {[length |-> 0, items |-> <<>>], [length |-> 1, items |-> <<>>]}
        \cup {[length |-> 40, items |-> <<i>>] : i \in Items}
        \cup {[length |-> 41, items |-> <<OutOfBandItem(1), FrameItem(f)>>] :
                 f \in {g \in ReceivedFrames : IsService(g.data_specifier)}}

\* Reads that give several items at once: every sequence of two items over
\* an out-of-band byte, a broadcast message frame from n2 and an anonymous
\* broadcast message frame, and every such sequence after an out-of-band
\* byte.
BurstItems ==
    {OutOfBandItem(1),
     FrameItem([data_specifier |-> "msg", source_node_id |-> "n2",
                destination_node_id |-> None]),
     FrameItem([data_specifier |-> "msg", source_node_id |-> None,
                destination_node_id |-> None])}
Bursts ==
    {[length |-> 80, items |-> <<a, b>>] : a \in BurstItems, b \in BurstItems}
        \cup {[length |-> 120, items |-> <<OutOfBandItem(1), b, c>>] :
                 b \in BurstItems, c \in BurstItems}

EngineState == <<local_node_id, service_transfer_multiplier, closed, port_open, now>>

\* A loop that tests the port only.
ReaderLoopWhileOpen ==
    /\ reader.pc = "loop"
    /\ reader' = [reader EXCEPT !.pc = IF port_open THEN "read" ELSE "exited"]
    /\ UNCHANGED <<local_node_id, service_transfer_multiplier, closed, port_open, now>>
    /\ UNCHANGED <<write_timeout, port_lock, serialization_buffer, statistics, task, link>>
    /\ UNCHANGED <<input_registry, output_registry, sessions, last_call, close_calls, posted>>
    /\ UNCHANGED codec

\* while not self._closed and self._serial_port.is_open
ReaderLoop ==
    /\ reader.pc = "loop"
    /\ reader' = [reader EXCEPT !.pc = IF ~closed /\ port_open THEN "read" ELSE "exited"]
    /\ UNCHANGED <<EngineState, SendState, SessionState, posted>>
    /\ UNCHANGED codec

\* A queue that runs the newest callback first.
PostFirst(queue, items, in_bytes_count, emitted) ==
    [k \in 1 .. Len(items) |->
        [item |-> items[Len(items) + 1 - k], in_bytes_count |-> in_bytes_count,
         seq |-> emitted + Len(items) + 1 - k]] \o queue

\* call_soon_threadsafe(self._handle_received_item_and_update_stats, item,
\* in_bytes_count) for each item of the chunk, in order.  seq numbers the
\* items in the order the parser emitted them.
Post(queue, items, in_bytes_count, emitted) ==
    queue \o [k \in 1 .. Len(items) |->
                 [item |-> items[k], in_bytes_count |-> in_bytes_count, seq |-> emitted + k]]

\* A read whose thread stores its byte count in the statistics itself.
ReaderReadCounting(chunk) ==
    /\ reader.pc = "read"
    /\ port_open
    /\ reader.reads < MaxReads \/ chunk.length = 0
    /\ LET count == reader.in_bytes_count + chunk.length
       IN  /\ reader' = [reader EXCEPT !.pc = "loop", !.in_bytes_count = count,
                                       !.reads = IF chunk.length = 0 THEN @ ELSE @ + 1,
                                       !.emitted = @ + Len(chunk.items)]
           /\ posted' = Post(posted, chunk.items, count, reader.emitted)
           /\ statistics' = [statistics EXCEPT !.in_bytes = count]
    /\ UNCHANGED <<local_node_id, service_transfer_multiplier, closed, port_open, now>>
    /\ UNCHANGED <<write_timeout, port_lock, serialization_buffer, task, link>>
    /\ UNCHANGED <<input_registry, output_registry, sessions, last_call, close_calls>>
    /\ UNCHANGED codec

\* A byte count that starts again with every chunk.
LengthOfChunk(in_bytes_count, chunk) == chunk.length

\* in_bytes_count += len(chunk)
Cumulative(in_bytes_count, chunk) == in_bytes_count + chunk.length

\* serial_port.read returns a chunk, which goes through the parser; the
\* thread reads at most `limit` chunks that are not empty.
ReaderReadWithin(chunk, limit) ==
    /\ reader.pc = "read"
    /\ port_open
    /\ reader.reads < limit \/ chunk.length = 0
    /\ LET count == Cumulative(reader.in_bytes_count, chunk)
       IN  /\ reader' = [reader EXCEPT !.pc = "loop", !.in_bytes_count = count,
                                       !.reads = IF chunk.length = 0 THEN @ ELSE @ + 1,
                                       !.emitted = @ + Len(chunk.items)]
           /\ posted' = Post(posted, chunk.items, count, reader.emitted)
    /\ UNCHANGED <<EngineState, SendState, SessionState>>
    /\ UNCHANGED codec

ReaderRead(chunk) == ReaderReadWithin(chunk, MaxReads)

\* serial_port.read (or inWaiting) raises: always on a closed port, and at
\* any time on an open one.
ReaderRaise ==
    /\ reader.pc = "read"
    /\ reader' = [reader EXCEPT !.pc = "except"]
    /\ UNCHANGED <<EngineState, SendState, SessionState, posted>>
    /\ UNCHANGED codec

\* serial_port.read comes back: with a chunk, with nothing when the read
\* timeout has passed, or with an exception.
ReaderReadReturns ==
    \/ \E chunk \in Chunks : ReaderRead(chunk)
    \/ ReaderRaise

\* An except clause that only logs.
ReaderLogOnly ==
    /\ reader.pc = "except"
    /\ reader' = [reader EXCEPT !.pc = "close_port"]
    /\ UNCHANGED <<local_node_id, service_transfer_multiplier, closed, port_open, now>>
    /\ UNCHANGED <<SendState, SessionState, posted>>
    /\ UNCHANGED codec

\* The except clause: self._closed = True
ReaderSetClosed ==
    /\ reader.pc = "except"
    /\ closed' = TRUE
    /\ reader' = [reader EXCEPT !.pc = "close_port"]
    /\ UNCHANGED <<local_node_id, service_transfer_multiplier, port_open, now>>
    /\ UNCHANGED <<SendState, SessionState, posted>>
    /\ UNCHANGED codec

\* The except clause: self._serial_port.close()
ReaderClosePort ==
    /\ reader.pc = "close_port"
    /\ port_open' = FALSE
    /\ reader' = [reader EXCEPT !.pc = "exited"]
    /\ UNCHANGED <<local_node_id, service_transfer_multiplier, closed, now>>
    /\ UNCHANGED <<SendState, SessionState, posted>>
    /\ UNCHANGED codec

\* LookupKeys without the test of the destination.
LookupKeysAnyDestination(frame) ==
    {<<frame.data_specifier, source_node_id>> :
        source_node_id \in {None, frame.source_node_id}}

\* The specifiers _handle_received_frame looks up in the input registry.
LookupKeys(frame) ==
    IF frame.destination_node_id \in {local_node_id, None}
    THEN {<<frame.data_specifier, source_node_id>> :
             source_node_id \in {None, frame.source_node_id}}
    ELSE {}

\* A loop over the tuple (None, frame.source_node_id), which looks the
\* wildcard session up twice for a frame without a source.
ProcessFrameCallsOverTuple(frame, n) ==
    IF LookupKeys(frame) = {} THEN 0
    ELSE LET source_node_ids == <<None, frame.source_node_id>>
         IN  Cardinality({k \in 1 .. 2 :
                 LET ss == <<frame.data_specifier, source_node_ids[k]>>
                 IN  ss \in DOMAIN input_registry /\ input_registry[ss] = n})

\* The number of times the loop calls session._process_frame(frame) on
\* session n: once for each key it finds the session under.
ProcessFrameCalls(frame, n) ==
    Cardinality({ss \in LookupKeys(frame) \cap DOMAIN input_registry :
                    input_registry[ss] = n})

\* The last two statements of _handle_received_item_and_update_stats:
\*     assert self._statistics.in_bytes <= in_bytes_count
\*     self._statistics.in_bytes = int(in_bytes_count)
\* A failed assertion ends the callback before the assignment.
UpdateStats(stats, in_bytes_count) ==
    IF stats.in_bytes <= in_bytes_count
    THEN [stats EXCEPT !.in_bytes = in_bytes_count]
    ELSE stats

\* A handler that counts the frames it has delivered to a session.
HandleDeliveredFrame(frame) ==
    /\ sessions' = [n \in 1 .. Len(sessions) |->
                       [sessions[n] EXCEPT !.processed =
                           @ \o [k \in 1 .. ProcessFrameCalls(frame, n) |->
                                    Head(posted).seq]]]
    /\ statistics' =
          UpdateStats([statistics EXCEPT !.in_frames =
                          IF \E n \in 1 .. Len(sessions) : ProcessFrameCalls(frame, n) > 0
                          THEN @ + 1 ELSE @],
                      Head(posted).in_bytes_count)

\* _handle_received_frame
HandleReceivedFrame(frame) ==
    /\ sessions' = [n \in 1 .. Len(sessions) |->
                       [sessions[n] EXCEPT !.processed =
                           @ \o [k \in 1 .. ProcessFrameCalls(frame, n) |->
                                    Head(posted).seq]]]
    /\ statistics' = UpdateStats([statistics EXCEPT !.in_frames = @ + 1],
                               Head(posted).in_bytes_count)

\* _handle_received_out_of_band_data
HandleReceivedOutOfBandData(length) ==
    /\ statistics' = UpdateStats([statistics EXCEPT !.in_out_of_band_bytes = @ + length],
                               Head(posted).in_bytes_count)
    /\ UNCHANGED sessions

\* The event loop runs the oldest posted callback:
\* _handle_received_item_and_update_stats(item, in_bytes_count)
HandleReceivedItem ==
    /\ posted # <<>>
    /\ LET item == Head(posted).item
       IN  IF item.kind = "frame"
           THEN HandleReceivedFrame(item.frame)
           ELSE HandleReceivedOutOfBandData(item.length)
    /\ posted' = Tail(posted)
    /\ UNCHANGED <<EngineState, input_registry, output_registry, last_call, close_calls, reader>>
    /\ UNCHANGED <<write_timeout, port_lock, serialization_buffer, task, link>>
    /\ UNCHANGED codec

(***************************************************************************)
(* The frame codec: SerialFrame.compile_into and                           *)
(* SerialFrame.parse_from_unescaped_image                                  *)
(*                                                                         *)
(* A byte is a number in 0 .. 255 and a buffer a sequence of bytes.  An    *)
(* optional value is a sequence: <<>> for None, <<v>> for v.  A 64-bit     *)
(* number (data_type_hash, transfer_id) and the frame index are written    *)
(* in base 65536, least significant digit first, because the numbers of    *)
(* the model checker stop at 2^31 - 1: a 64-bit number has four digits     *)
(* and a number of five digits is 2^64 or more; the index has two digits   *)
(* and 2^31 is <<0, 32768>>.  A negative number has a negative digit.      *)
(***************************************************************************)
VERSION == 0
ANONYMOUS_NODE_ID == 65535
NODE_ID_MASK == 4095
INDEX_MASK == 2147483647
FRAME_DELIMITER_BYTE == 158
ESCAPE_PREFIX_BYTE == 142
NUM_OVERHEAD_BYTES_EXCEPT_DELIMITERS_AND_ESCAPING == HEADER_SIZE + CRC_SIZE_BYTES

\* pyuavcan.transport.Priority: EXCEPTIONAL = 0 .. OPTIONAL = 7.
Priorities == 0 .. 7
\* pyuavcan.transport.ServiceDataSpecifier.SERVICE_ID_MASK
SERVICE_ID_MASK == 511

\* pyuavcan.transport.MessageDataSpecifier(subject_id)
MessageDataSpecifier(subject_id) ==
    [kind |-> "message", id |-> subject_id, role |-> "none"]
\* pyuavcan.transport.ServiceDataSpecifier(service_id, role)
ServiceDataSpecifier(service_id, role) ==
    [kind |-> "service", id |-> service_id, role |-> role]

\* a ^ b, a | b and a & b on numbers of n bits.
RECURSIVE XorBits(_, _, _)
XorBits(a, b, n) ==
    IF n = 0 THEN 0 ELSE ((a + b) % 2) + 2 * XorBits(a \div 2, b \div 2, n - 1)
Xor(a, b) == XorBits(a, b, 8)

RECURSIVE OrBits(_, _, _)
OrBits(a, b, n) ==
    IF n = 0 THEN 0
    ELSE (IF a % 2 = 1 \/ b % 2 = 1 THEN 1 ELSE 0) + 2 * OrBits(a \div 2, b \div 2, n - 1)
Or16(a, b) == OrBits(a, b, 16)

RECURSIVE AndBits(_, _, _)
AndBits(a, b, n) ==
    IF n = 0 THEN 0
    ELSE (IF a % 2 = 1 /\ b % 2 = 1 THEN 1 ELSE 0) + 2 * AndBits(a \div 2, b \div 2, n - 1)
And16(a, b) == AndBits(a, b, 16)

\* CRC-32C (Castagnoli), pyuavcan.transport.commons.crc.CRC32C: the
\* register is four bytes, least significant first; reflected polynomial
\* 0x82F63B78, initial value and output XOR 0xFFFFFFFF, residue 0xB798B438.
CRCPolynomial == <<120, 59, 246, 130>>
CRCInitial == <<255, 255, 255, 255>>
CRCResidue == <<56, 180, 152, 183>>

XorWord(r, s) == <<Xor(r[1], s[1]), Xor(r[2], s[2]), Xor(r[3], s[3]), Xor(r[4], s[4])>>

ShiftRight(r) ==
    <<(r[1] \div 2) + (r[2] % 2) * 128, (r[2] \div 2) + (r[3] % 2) * 128,
      (r[3] \div 2) + (r[4] % 2) * 128, r[4] \div 2>>

RECURSIVE CRCShift(_, _)
CRCShift(r, n) ==
    IF n = 0 THEN r
    ELSE CRCShift(IF r[1] % 2 = 1 THEN XorWord(ShiftRight(r), CRCPolynomial)
                  ELSE ShiftRight(r), n - 1)

CRCTable == [b \in 0 .. 255 |-> CRCShift(<<b, 0, 0, 0>>, 8)]

\* The register after one more byte.
CRCAdd(r, b) == XorWord(<<r[2], r[3], r[4], 0>>, CRCTable[Xor(r[1], b)])

\* The register r after bytes i .. j of data: after the first half of them,
\* then after the second.
RECURSIVE CRCRegister(_, _, _, _)
CRCRegister(r, data, i, j) ==
    IF i > j THEN r
    ELSE IF i = j THEN CRCAdd(r, data[i])
    ELSE LET mid == (i + j) \div 2
         IN  CHOOSE after \in {CRCRegister(m, data, mid + 1, j) :
                                  m \in {CRCRegister(r, data, i, mid)}} : TRUE

\* CRC32C.new(data).value_as_bytes
CRCValueAsBytes(data) == XorWord(CRCRegister(CRCInitial, data, 1, Len(data)), CRCInitial)
\* CRC32C.new(data).check_residue()
CRCCheckResidue(data) == CRCRegister(CRCInitial, data, 1, Len(data)) = CRCResidue

\* struct.pack and struct.unpack_from, little-endian: 'H', 'Q' and 'L'.
PackH(n) == <<n % 256, n \div 256>>
UnpackH(bytes, at) == bytes[at] + 256 * bytes[at + 1]
PackQ(digits) == PackH(digits[1]) \o PackH(digits[2]) \o PackH(digits[3]) \o PackH(digits[4])
UnpackQ(bytes, at) ==
    <<UnpackH(bytes, at), UnpackH(bytes, at + 2), UnpackH(bytes, at + 4),
      UnpackH(bytes, at + 6)>>
\* index | ((1 << 31) if end_of_transfer else 0), packed: the flag is the
\* top bit of the fourth byte.
PackIndexEot(index, end_of_transfer) ==
    PackH(index[1])
        \o <<index[2] % 256, (index[2] \div 256) + (IF end_of_transfer THEN 128 ELSE 0)>>
\* index_eot & INDEX_MASK and index_eot & (1 << 31) != 0, from the packed form.
UnpackIndex(bytes, at) ==
    <<UnpackH(bytes, at), bytes[at + 2] + 256 * (bytes[at + 3] % 128)>>
UnpackEot(bytes, at) == bytes[at + 3] >= 128

\* A 64-bit unsigned number: 0 <= n <= 2^64 - 1.
IsUInt64(digits) == Len(digits) = 4 /\ \A k \in 1 .. 4 : digits[k] \in 0 .. 65535

\* A frame index: 0 <= n <= INDEX_MASK.
IsIndex(digits) ==
    /\ Len(digits) = 2
    /\ digits[1] \in 0 .. 65535
    /\ digits[2] \in 0 .. INDEX_MASK \div 65536

\* __post_init__ without the test of the service of an anonymous node.
PostInitWithoutService(f) ==
    /\ f.source_node_id # <<>> => (0 <= f.source_node_id[1] /\ f.source_node_id[1] <= NODE_ID_MASK)
    /\ f.destination_node_id # <<>> =>
          (0 <= f.destination_node_id[1] /\ f.destination_node_id[1] <= NODE_ID_MASK)
    /\ IsUInt64(f.data_type_hash)
    /\ IsUInt64(f.transfer_id)
    /\ IsIndex(f.index)

\* __post_init__ raises no ValueError (the arguments have the right types).
PostInit(f) ==
    /\ f.source_node_id # <<>> => (0 <= f.source_node_id[1] /\ f.source_node_id[1] <= NODE_ID_MASK)
    /\ f.destination_node_id # <<>> =>
          (0 <= f.destination_node_id[1] /\ f.destination_node_id[1] <= NODE_ID_MASK)
    /\ ~(f.data_specifier.kind = "service" /\ f.source_node_id = <<>>)
    /\ IsUInt64(f.data_type_hash)
    /\ IsUInt64(f.transfer_id)
    /\ IsIndex(f.index)

\* A data specifier word without the role of the service.
DataSpecOfRequest(data_specifier) ==
    IF data_specifier.kind = "message"
    THEN data_specifier.id
    ELSE Or16(32768, data_specifier.id)

\* The data specifier word of the header.
DataSpec(data_specifier) ==
    IF data_specifier.kind = "message"
    THEN data_specifier.id
    ELSE Or16(Or16(32768, IF data_specifier.role = "RESPONSE" THEN 16384 ELSE 0),
              data_specifier.id)

\* The 28 packed bytes of the header and their CRC.
Header(f) ==
    LET src_nid == IF f.source_node_id = <<>> THEN ANONYMOUS_NODE_ID ELSE f.source_node_id[1]
        dst_nid == IF f.destination_node_id = <<>> THEN ANONYMOUS_NODE_ID
                   ELSE f.destination_node_id[1]
        header  == <<VERSION, f.priority>> \o PackH(src_nid) \o PackH(dst_nid)
                       \o PackH(DataSpec(f.data_specifier)) \o PackQ(f.data_type_hash)
                       \o PackQ(f.transfer_id) \o PackIndexEot(f.index, f.end_of_transfer)
    IN  header \o CRCValueAsBytes(header)

\* itertools.chain(header, self.payload, payload_crc_bytes)
Image(f) == Header(f) \o f.payload \o CRCValueAsBytes(f.payload)

\* A loop that escapes the escape prefix only.
RECURSIVE EscapedPrefixes(_, _, _)
EscapedPrefixes(bytes, i, j) ==
    IF i > j THEN <<>>
    ELSE IF i = j
    THEN IF bytes[i] = ESCAPE_PREFIX_BYTE
         THEN <<ESCAPE_PREFIX_BYTE, Xor(bytes[i], 255)>>
         ELSE <<bytes[i]>>
    ELSE EscapedPrefixes(bytes, i, (i + j) \div 2)
             \o EscapedPrefixes(bytes, (i + j) \div 2 + 1, j)

\* A loop that escapes the delimiter only.
RECURSIVE EscapedDelimiters(_, _, _)
EscapedDelimiters(bytes, i, j) ==
    IF i > j THEN <<>>
    ELSE IF i = j
    THEN IF bytes[i] = FRAME_DELIMITER_BYTE
         THEN <<ESCAPE_PREFIX_BYTE, Xor(bytes[i], 255)>>
         ELSE <<bytes[i]>>
    ELSE EscapedDelimiters(bytes, i, (i + j) \div 2)
             \o EscapedDelimiters(bytes, (i + j) \div 2 + 1, j)

\* What the loop of compile_into writes for bytes i .. j: for the first
\* half of them, then for the second.
RECURSIVE Escaped(_, _, _)
Escaped(bytes, i, j) ==
    IF i > j THEN <<>>
    ELSE IF i = j
    THEN IF bytes[i] \in {FRAME_DELIMITER_BYTE, ESCAPE_PREFIX_BYTE}
         THEN <<ESCAPE_PREFIX_BYTE, Xor(bytes[i], 255)>>
         ELSE <<bytes[i]>>
    ELSE Escaped(bytes, i, (i + j) \div 2) \o Escaped(bytes, (i + j) \div 2 + 1, j)

\* compile_into(out_buffer)[:next_byte_index], the buffer being large enough.
CompileInto(f) ==
    CHOOSE compiled \in {<<FRAME_DELIMITER_BYTE>> \o Escaped(image, 1, Len(image))
                             \o <<FRAME_DELIMITER_BYTE>> : image \in {Image(f)}} : TRUE

\* The stream parser's un-escaping of bytes i .. j of what is between two
\* delimiters: an escape prefix is dropped and the byte after it is taken
\* inverted.  escaped tells whether byte i follows an escape prefix; the
\* result tells the same of the byte after j.
RECURSIVE Unescaping(_, _, _, _)
Unescaping(bytes, i, j, escaped) ==
    IF i > j THEN [out |-> <<>>, escaped |-> escaped]
    ELSE IF i = j
    THEN IF escaped THEN [out |-> <<Xor(bytes[i], 255)>>, escaped |-> FALSE]
         ELSE IF bytes[i] = ESCAPE_PREFIX_BYTE THEN [out |-> <<>>, escaped |-> TRUE]
         ELSE [out |-> <<bytes[i]>>, escaped |-> FALSE]
    ELSE LET mid    == (i + j) \div 2
             first  == Unescaping(bytes, i, mid, escaped)
             second == Unescaping(bytes, mid + 1, j, first.escaped)
         IN  [out |-> first.out \o second.out, escaped |-> second.escaped]
Unescaped(bytes) == Unescaping(bytes, 1, Len(bytes), FALSE).out

\* pyuavcan.transport.MessageDataSpecifier.SUBJECT_ID_MASK: the unit tests
\* construct MessageDataSpecifier(12345), and the data specifier word gives
\* the subject its low 15 bits.
SUBJECT_ID_MASK == 32767

\* The fields unpack_from reads from the header and the arguments
\* SerialFrame is given for them.
Unpacked(image) ==
    LET int_priority  == image[2]
        src_nid       == UnpackH(image, 3)
        dst_nid       == UnpackH(image, 5)
        int_data_spec == UnpackH(image, 7)
    IN  [priority            |-> int_priority,
         source_node_id      |-> IF src_nid = ANONYMOUS_NODE_ID THEN <<>> ELSE <<src_nid>>,
         destination_node_id |-> IF dst_nid = ANONYMOUS_NODE_ID THEN <<>> ELSE <<dst_nid>>,
         data_specifier      |->
             IF And16(int_data_spec, 32768) = 0
             THEN MessageDataSpecifier(int_data_spec)
             ELSE ServiceDataSpecifier(
                      And16(int_data_spec, SERVICE_ID_MASK),
                      IF And16(int_data_spec, 16384) # 0 THEN "RESPONSE" ELSE "REQUEST"),
         data_type_hash      |-> UnpackQ(image, 9),
         transfer_id         |-> UnpackQ(image, 17),
         index               |-> UnpackIndex(image, 25),
         end_of_transfer     |-> UnpackEot(image, 25),
         payload             |-> SubSeq(image, HEADER_SIZE + 1, Len(image) - CRC_SIZE_BYTES)]

\* The second half of parse_from_unescaped_image, from unpack_from on:
\* <<the frame>>, or <<>> for None.
Reconstructed(image) ==
    LET version == image[1]
        frame   == Unpacked(image)
    IN  IF version # VERSION THEN <<>>
        ELSE IF frame.priority \notin Priorities \/ ~PostInit(frame) THEN <<>>
        ELSE <<frame>>

\* The error the constructors of the data specifier raise, which
\* parse_from_unescaped_image calls before its try statement: a subject-ID
\* or service-ID above the mask is a ValueError.
DataSpecifierError(int_data_spec) ==
    IF And16(int_data_spec, 32768) = 0
    THEN IF int_data_spec <= SUBJECT_ID_MASK THEN "none" ELSE "ValueError"
    ELSE IF And16(int_data_spec, SERVICE_ID_MASK) <= SERVICE_ID_MASK THEN "none"
         ELSE "ValueError"

\* The error the body of the try statement raises: Priority(int_priority)
\* and SerialFrame(...) raise ValueError.
ConstructionError(image) ==
    IF Unpacked(image).priority \notin Priorities \/ ~PostInit(Unpacked(image))
    THEN "ValueError"
    ELSE "none"

\* A try statement without its except clause.
CaughtNothing(error) == FALSE

\* except ValueError: return None
Caught(error) == error = "ValueError"

\* How parse_from_unescaped_image ends: "returned", or the error it raises.
ParseOutcome(image) ==
    IF Len(image) < NUM_OVERHEAD_BYTES_EXCEPT_DELIMITERS_AND_ESCAPING THEN "returned"
    ELSE IF ~CRCCheckResidue(SubSeq(image, 1, HEADER_SIZE)) THEN "returned"
    ELSE IF ~CRCCheckResidue(SubSeq(image, HEADER_SIZE + 1, Len(image))) THEN "returned"
    ELSE IF image[1] # VERSION THEN "returned"
    ELSE IF DataSpecifierError(UnpackH(image, 7)) # "none"
    THEN DataSpecifierError(UnpackH(image, 7))
    ELSE IF ConstructionError(image) # "none" /\ ~Caught(ConstructionError(image))
    THEN ConstructionError(image)
    ELSE "returned"

\* A parser that does not check the CRC of the header.
ParseWithoutHeaderCheck(image) ==
    IF Len(image) < NUM_OVERHEAD_BYTES_EXCEPT_DELIMITERS_AND_ESCAPING THEN <<>>
    ELSE IF ~CRCCheckResidue(SubSeq(image, HEADER_SIZE + 1, Len(image))) THEN <<>>
    ELSE Reconstructed(image)

\* parse_from_unescaped_image(image, timestamp): <<the frame>>, or <<>> for
\* None.
ParseFromUnescapedImage(image) ==
    IF Len(image) < NUM_OVERHEAD_BYTES_EXCEPT_DELIMITERS_AND_ESCAPING THEN <<>>
    ELSE IF ~CRCCheckResidue(SubSeq(image, 1, HEADER_SIZE)) THEN <<>>
    ELSE IF ~CRCCheckResidue(SubSeq(image, HEADER_SIZE + 1, Len(image))) THEN <<>>
    ELSE Reconstructed(image)

\* The arguments SerialFrame is constructed with: node-IDs absent, equal to
\* the two special bytes and out of range; a message subject and the two
\* roles of a service; zeroes with the lowest priority and the numbers of
\* the unit tests with the highest; payloads over the two special bytes and
\* a plain one.
PayloadBytes == {FRAME_DELIMITER_BYTE, ESCAPE_PREFIX_BYTE, 97}
Payloads == UNION {[1 .. n -> PayloadBytes] : n \in 0 .. MaxPayload}
FrameNumbers ==
    {[priority |-> 7, data_type_hash |-> <<0, 0, 0, 0>>, transfer_id |-> <<0, 0, 0, 0>>,
      index |-> <<0, 0>>],
     [priority |-> 0, data_type_hash |-> <<4094, 47836, 48879, 57005>>,
      transfer_id |-> <<33045, 32233, 4340, 4386>>, index |-> <<54919, 18>>]}
FrameArguments ==
    {[priority            |-> n.priority,
      source_node_id      |-> src,
      destination_node_id |-> dst,
      data_specifier      |-> ds,
      data_type_hash      |-> n.data_type_hash,
      transfer_id         |-> n.transfer_id,
      index               |-> n.index,
      end_of_transfer     |-> eot,
      payload             |-> payload] :
        n \in FrameNumbers,
        src \in {<<>>, <<FRAME_DELIMITER_BYTE>>, <<NODE_ID_MASK + 1>>},
        dst \in {<<>>, <<ESCAPE_PREFIX_BYTE>>},
        ds \in {MessageDataSpecifier(12345), ServiceDataSpecifier(123, "REQUEST"),
                ServiceDataSpecifier(123, "RESPONSE")},
        eot \in BOOLEAN,
        payload \in Payloads}

\* The arguments of the unit test of the constructor: node-IDs absent, at
\* both ends of the range and outside it (-1, 4096, 123456); a message and
\* a service; hash, transfer-ID and index zero, the largest of their
\* range, one above it and -1.
CheckedNodeIds == {<<>>, <<-1>>, <<0>>, <<NODE_ID_MASK>>, <<NODE_ID_MASK + 1>>, <<123456>>}
Checked64 ==
    {<<0, 0, 0, 0>>, <<65535, 65535, 65535, 65535>>, <<0, 0, 0, 0, 1>>, <<-1, 0, 0, 0>>}
CheckedIndices == {<<0, 0>>, <<65535, 32767>>, <<0, 32768>>, <<-1, 0>>}
CheckedArguments ==
    {[priority            |-> 2,
      source_node_id      |-> src,
      destination_node_id |-> dst,
      data_specifier      |-> ds,
      data_type_hash      |-> hash,
      transfer_id         |-> tid,
      index               |-> index,
      end_of_transfer     |-> FALSE,
      payload             |-> [k \in 1 .. n |-> 97]] :
        src \in CheckedNodeIds, dst \in CheckedNodeIds,
        ds \in {MessageDataSpecifier(12345), ServiceDataSpecifier(123, "REQUEST")},
        hash \in Checked64, tid \in Checked64, index \in CheckedIndices,
        n \in {0, MaxPayload}}

\* The variables of the engine, which the codec does not touch.
engine ==
    <<local_node_id, service_transfer_multiplier, closed, port_open, write_timeout,
      port_lock, serialization_buffer, input_registry, output_registry, sessions,
      statistics, now, task, link, reader, posted, last_call, close_calls>>

\* SerialFrame(...): the frame, or ValueError from __post_init__.
NewFrame(f) ==
    /\ codec.pc = "idle"
    /\ codec' = IF PostInit(f)
                THEN [codec EXCEPT !.pc = "frame", !.arguments = <<f>>, !.frame = <<f>>]
                ELSE [codec EXCEPT !.pc = "ValueError", !.arguments = <<f>>]
    /\ UNCHANGED engine

\* frame.compile_into(buffer)
CompileFrame ==
    /\ codec.pc = "frame"
    /\ codec' = [codec EXCEPT !.pc = "compiled", !.compiled = CompileInto(codec.frame[1])]
    /\ UNCHANGED engine

\* The receiving side drops the two delimiters and un-escapes the rest.
StripFraming ==
    /\ codec.pc = "compiled"
    /\ codec' = [codec EXCEPT !.pc = "image",
                              !.image = Unescaped(SubSeq(codec.compiled, 2,
                                                         Len(codec.compiled) - 1))]
    /\ UNCHANGED engine

\* The images a receiver may get instead: one bit of the header or of the
\* payload flipped, ...
FlipBit(k, bit) ==
    /\ codec.pc = "image"
    /\ codec.damage = "none"
    /\ k \in 1 .. Len(codec.image) - CRC_SIZE_BYTES
    /\ codec' = [codec EXCEPT !.damage = "bit",
                              !.image = [@ EXCEPT ![k] = Xor(@, 2 ^ bit)]]
    /\ UNCHANGED engine

\* ... the image cut to n bytes, fewer than header and payload CRC take, ...
Truncate(n) ==
    /\ codec.pc = "image"
    /\ codec.damage = "none"
    /\ n < NUM_OVERHEAD_BYTES_EXCEPT_DELIMITERS_AND_ESCAPING
    /\ codec' = [codec EXCEPT !.damage = "short", !.image = SubSeq(@, 1, n)]
    /\ UNCHANGED engine

\* ... another version in the header, with the CRC of that header, ...
SetVersion(version) ==
    /\ codec.pc = "image"
    /\ codec.damage = "none"
    /\ version # VERSION
    /\ LET header == <<version>> \o SubSeq(codec.image, 2, HEADER_SIZE - CRC_SIZE_BYTES)
       IN  codec' = [codec EXCEPT !.damage = "version",
                                  !.image = header \o CRCValueAsBytes(header)
                                                \o SubSeq(@, HEADER_SIZE + 1, Len(@))]
    /\ UNCHANGED engine

\* ... or other bytes in the place of the CRC of the payload.
ReplaceCRC(bytes) ==
    /\ codec.pc = "image"
    /\ codec.damage = "none"
    /\ bytes # SubSeq(codec.image, Len(codec.image) - CRC_SIZE_BYTES + 1, Len(codec.image))
    /\ codec' = [codec EXCEPT !.damage = "crc",
                              !.image = SubSeq(@, 1, Len(@) - CRC_SIZE_BYTES) \o bytes]
    /\ UNCHANGED engine

\* Header fields of the image replaced and the CRC of the header computed
\* anew: a priority, node-IDs or a data specifier word that no frame has.
\* fields gives <<>> for a field that stays and <<value>> for one replaced.
HeaderFields ==
    [priority            : {<<>>, <<8>>, <<136>>},
     source_node_id      : {<<>>, <<NODE_ID_MASK + 1>>, <<ANONYMOUS_NODE_ID - 1>>,
                            <<ANONYMOUS_NODE_ID>>},
     destination_node_id : {<<>>, <<NODE_ID_MASK + 1>>, <<65280>>},
     data_specifier      : {<<>>, <<8192>>, <<SUBJECT_ID_MASK>>, <<32768>>, <<65535>>}]

RewriteHeader(fields) ==
    /\ codec.pc = "image"
    /\ codec.damage = "none"
    /\ fields \in HeaderFields
    /\ LET Kept(field, at, n) ==
               IF field = <<>> THEN SubSeq(codec.image, at, at + n - 1)
               ELSE IF n = 1 THEN field
               ELSE PackH(field[1])
           header == <<codec.image[1]>> \o Kept(fields.priority, 2, 1)
                         \o Kept(fields.source_node_id, 3, 2)
                         \o Kept(fields.destination_node_id, 5, 2)
                         \o Kept(fields.data_specifier, 7, 2)
                         \o SubSeq(codec.image, 9, HEADER_SIZE - CRC_SIZE_BYTES)
       IN  codec' = [codec EXCEPT !.damage = "fields",
                                  !.image = header \o CRCValueAsBytes(header)
                                                \o SubSeq(@, HEADER_SIZE + 1, Len(@))]
    /\ UNCHANGED engine

(***************************************************************************)
(* The stream parser (StreamParser): a machine with the two states between *)
(* and inside that takes the bytes of the link one at a time and hands     *)
(* frames and spans of out-of-band bytes to its callback.                  *)
(***************************************************************************)
\* StreamParser(callback, max(self.VALID_MTU_RANGE)): the largest frame
\* buffer, the largest MTU and the overhead.
VALID_MTU_MAX == 1073741824
MaxFrameSize == VALID_MTU_MAX + NUM_OVERHEAD_BYTES_EXCEPT_DELIMITERS_AND_ESCAPING

\* What the parser hands to the callback.
ParsedFrame(frame) == [kind |-> "frame", frame |-> <<frame>>, bytes |-> <<>>]
OutOfBand(bytes) == [kind |-> "oob", frame |-> <<>>, bytes |-> bytes]

NewParser == [mode |-> "between", oob |-> <<>>, buffer |-> <<>>, escape |-> FALSE]

\* Between frames: a delimiter flushes the out-of-band bytes gathered so
\* far as one span and opens a frame; any other byte is out of band.
Between(parser, b) ==
    IF b = FRAME_DELIMITER_BYTE
    THEN [parser |-> [NewParser EXCEPT !.mode = "inside"],
          items  |-> IF parser.oob = <<>> THEN <<>> ELSE <<OutOfBand(parser.oob)>>]
    ELSE [parser |-> [parser EXCEPT !.oob = Append(@, b)], items |-> <<>>]

\* The closing delimiter: the buffer is decoded when it is long enough to be
\* a frame; a frame is handed over, anything else goes out of band.
Finalized(buffer) ==
    LET parsed == IF Len(buffer) >= NUM_OVERHEAD_BYTES_EXCEPT_DELIMITERS_AND_ESCAPING
                  THEN ParseFromUnescapedImage(buffer)
                  ELSE <<>>
    IN  IF parsed # <<>> THEN <<ParsedFrame(parsed[1])>> ELSE <<OutOfBand(buffer)>>

\* One more byte for the frame buffer; a buffer that would grow beyond the
\* maximum is given up as out-of-band bytes and the byte is taken again
\* between frames.
Buffered(parser, b, raw) ==
    IF Len(parser.buffer) + 1 > MaxFrameSize
    THEN LET again == Between(NewParser, raw)
         IN  [parser |-> again.parser,
              items  |-> <<OutOfBand(parser.buffer)>> \o again.items]
    ELSE [parser |-> [parser EXCEPT !.buffer = Append(@, b), !.escape = FALSE],
          items  |-> <<>>]

\* Inside a frame: the byte after an escape prefix is taken inverted; a
\* delimiter closes the frame and the parser is between frames again, but
\* with nothing in the buffer it is the opening delimiter of the next
\* frame; an escape prefix announces an escaped byte; any other byte is
\* taken as it is.
Inside(parser, b) ==
    IF parser.escape THEN Buffered(parser, Xor(b, 255), b)
    ELSE IF b = FRAME_DELIMITER_BYTE
    THEN IF parser.buffer = <<>> THEN [parser |-> parser, items |-> <<>>]
         ELSE [parser |-> NewParser, items |-> Finalized(parser.buffer)]
    ELSE IF b = ESCAPE_PREFIX_BYTE
    THEN [parser |-> [parser EXCEPT !.escape = TRUE], items |-> <<>>]
    ELSE Buffered(parser, b, b)

\* The parser takes the byte b.
ProcessByte(parser, b) ==
    IF parser.mode = "between" THEN Between(parser, b) ELSE Inside(parser, b)

\* The bytes that arrive before the frame: every sequence over the
\* delimiter, the escape prefix and a plain byte.
Garbage == UNION {[1 .. n -> PayloadBytes] : n \in 0 .. MaxGarbage}

\* The link carries the garbage, then the compiled frame, to a new parser.
Feed(garbage) ==
    /\ codec.pc = "compiled"
    /\ codec' = [codec EXCEPT !.pc = "stream", !.garbage = garbage,
                              !.stream = garbage \o codec.compiled,
                              !.parser = NewParser, !.items = <<>>]
    /\ UNCHANGED engine

\* parser.process_next_chunk: the next byte of the link.
ProcessNextByte ==
    /\ codec.pc = "stream"
    /\ codec.stream # <<>>
    /\ LET step == ProcessByte(codec.parser, Head(codec.stream))
       IN  codec' = [codec EXCEPT !.stream = Tail(@), !.parser = step.parser,
                                  !.items = @ \o step.items]
    /\ UNCHANGED engine

\* SerialFrame.parse_from_unescaped_image(image, timestamp): it returns the
\* frame or None, or it raises.
ParseImage ==
    /\ codec.pc = "image"
    /\ codec' = IF ParseOutcome(codec.image) = "returned"
                THEN [codec EXCEPT !.pc = "parsed",
                                   !.parsed = ParseFromUnescapedImage(codec.image)]
                ELSE [codec EXCEPT !.pc = "raised"]
    /\ UNCHANGED engine

(***************************************************************************)
(* The engine                                                              *)
(***************************************************************************)
SessionStep ==
    \/ \E specifier \in InputSpecifiers : GetInputSession(specifier)
    \/ \E specifier \in OutputSpecifiers : GetOutputSession(specifier)
    \/ \E n \in 1 .. MaxSessions : CloseSession(n)

\* The coroutines that send: two concurrent ones when every handler is the
\* plain _send_transfer, one when the service handler repeats its transfer.
Senders == IF service_transfer_multiplier = 1 THEN Tasks ELSE {"t1"}

SendStep ==
    \/ \E t \in Senders, n \in 1 .. MaxSessions :
          \E frames \in TransfersOf(t), monotonic_deadline \in Deadlines :
              StartSend(t, n, frames, monotonic_deadline)
    \/ \E t \in Tasks : Enter(t)
    \/ \E t \in Tasks : AcquireLock(t)
    \/ \E t \in Tasks : PortWrite(t)
    \/ \E t \in Tasks : Resume(t)

ReceiveStep ==
    \/ ReaderLoop
    \/ \E chunk \in Chunks : ReaderRead(chunk)
    \/ ReaderRaise
    \/ ReaderSetClosed
    \/ ReaderClosePort
    \/ HandleReceivedItem

Next ==
    \/ SessionStep
    \/ SendStep
    \/ ReceiveStep
    \/ Close
    \/ Tick

Spec == Init /\ [][Next]_vars


\* The send path alone: the output session of a service, whose handler is
\* the repeating send_transfer or the plain _send_transfer as the multiplier
\* has it, the coroutines that send through it, close() and the clock.
NextSend ==
    \/ GetOutputSession(<<"srv", "n2">>)
    \/ SendStep
    \/ Close
    \/ Tick

SpecSend == Init /\ [][NextSend]_vars

\* The receive path alone: input sessions, the reader thread, the posted
\* callbacks and close().
NextReceive ==
    \/ \E specifier \in InputSpecifiers : GetInputSession(specifier)
    \/ \E n \in 1 .. MaxSessions : CloseSession(n)
    \/ ReceiveStep
    \/ Close

SpecReceive == Init /\ [][NextReceive]_vars

\* The registries alone: sessions of both kinds and close().
NextSessions ==
    \/ SessionStep
    \/ Close

SpecSessions == Init /\ [][NextSessions]_vars

\* The life cycle: every operation of the engine on its smallest inputs, one
\* input specifier, one coroutine that sends one frame, a reader that reads
\* no data and fails, and a clock that stands still.
NextLifecycle ==
    \/ GetInputSession(<<"msg", None>>)
    \/ \E specifier \in OutputSpecifiers : GetOutputSession(specifier)
    \/ \E n \in 1 .. MaxSessions : CloseSession(n)
    \/ \E n \in 1 .. MaxSessions, monotonic_deadline \in Deadlines :
          StartSend("t1", n, <<FrameAt(1)>>, monotonic_deadline)
    \/ Enter("t1")
    \/ AcquireLock("t1")
    \/ PortWrite("t1")
    \/ Resume("t1")
    \/ ReaderLoop
    \/ ReaderRead([length |-> 0, items |-> <<>>])
    \/ ReaderRaise
    \/ ReaderSetClosed
    \/ ReaderClosePort
    \/ Close

SpecLifecycle == Init /\ [][NextLifecycle]_vars

\* The receive path under bursts: input sessions, a reader whose reads give
\* several items each, the posted callbacks and close().
NextOrder ==
    \/ \E specifier \in {<<"msg", None>>, <<"msg", "n2">>} : GetInputSession(specifier)
    \/ ReaderLoop
    \/ \E chunk \in Bursts : ReaderRead(chunk)
    \/ HandleReceivedItem
    \/ Close

SpecOrder == Init /\ [][NextOrder]_vars

\* The two send handlers side by side: output sessions of a message and of
\* a service, under either multiplier, a coroutine that sends the longest
\* transfer to the service, another that sends one frame to the message
\* subject, while the clock stands still.
NextDuplication ==
    \/ \E specifier \in OutputSpecifiers : GetOutputSession(specifier)
    \/ \E n \in 1 .. Len(sessions), monotonic_deadline \in Deadlines :
          /\ IsService(sessions[n].specifier[1])
          /\ StartSend("t1", n, [k \in 1 .. MaxFrames |-> FrameAt(k)], monotonic_deadline)
    \/ \E n \in 1 .. Len(sessions), monotonic_deadline \in Deadlines :
          /\ ~IsService(sessions[n].specifier[1])
          /\ StartSend("t2", n, <<FrameAt(1)>>, monotonic_deadline)
    \/ \E t \in Tasks : Enter(t)
    \/ \E t \in Tasks : AcquireLock(t)
    \/ \E t \in Tasks : PortWrite(t)
    \/ \E t \in Tasks : Resume(t)

SpecDuplication == Init /\ [][NextDuplication]_vars

\* Everything that touches the statistics, together: an output session and
\* its finaliser, a coroutine that sends the longest transfer with the
\* latest deadline, a reader
\* whose reads give out-of-band data and a frame, and which may fail, the
\* posted callbacks and close().
NextStatistics ==
    \/ GetOutputSession(<<"srv", "n2">>)
    \/ \E n \in 1 .. MaxSessions : CloseSession(n)
    \/ \E n \in 1 .. MaxSessions :
          StartSend("t1", n, [k \in 1 .. MaxFrames |-> FrameAt(k)], MaxTime)
    \/ Enter("t1")
    \/ AcquireLock("t1")
    \/ PortWrite("t1")
    \/ Resume("t1")
    \/ ReaderLoop
    \/ \E chunk \in {c \in Chunks : Len(c.items) > 1} : ReaderRead(chunk)
    \/ ReaderRaise
    \/ ReaderSetClosed
    \/ ReaderClosePort
    \/ HandleReceivedItem
    \/ Close

SpecStatistics == Init /\ [][NextStatistics]_vars

\* The reader thread and what lives beside it: input sessions, the posted
\* callbacks and close().  The thread is scheduled by the operating system
\* and is never blocked inside its except clause, so each of the clause's
\* two statements is taken once it is reached.
NextReader ==
    \/ \E specifier \in InputSpecifiers : GetInputSession(specifier)
    \/ ReaderLoop
    \/ \E chunk \in {c \in Chunks : Len(c.items) # 1} : ReaderRead(chunk)
    \/ ReaderRaise
    \/ ReaderSetClosed
    \/ ReaderClosePort
    \/ HandleReceivedItem
    \/ Close

SpecReader ==
    /\ Init
    /\ [][NextReader]_vars
    /\ WF_vars(ReaderSetClosed)
    /\ WF_vars(ReaderClosePort)

\* The codec alone: a frame is constructed, compiled, stripped of its
\* framing and parsed.
NextCodec ==
    \/ \E f \in FrameArguments : NewFrame(f)
    \/ CompileFrame
    \/ StripFraming
    \/ ParseImage

SpecCodec == Init /\ [][NextCodec]_vars

\* The parser on damaged images: frames from node 0x9E that end a transfer
\* to everyone, with the longest payloads of one byte repeated, are compiled
\* and stripped of their framing, and the image is parsed as it is or after
\* one damage.
NextDecode ==
    \/ \E f \in {g \in FrameArguments :
                    /\ g.end_of_transfer
                    /\ g.source_node_id = <<FRAME_DELIMITER_BYTE>>
                    /\ g.destination_node_id = <<>>
                    /\ Len(g.payload) = MaxPayload
                    /\ \A k \in 1 .. Len(g.payload) : g.payload[k] = g.payload[1]} :
          NewFrame(f)
    \/ CompileFrame
    \/ StripFraming
    \/ \E k \in 1 .. HEADER_SIZE + MaxPayload, bit \in 0 .. 7 : FlipBit(k, bit)
    \/ \E n \in 0 .. NUM_OVERHEAD_BYTES_EXCEPT_DELIMITERS_AND_ESCAPING - 1 : Truncate(n)
    \/ \E version \in {1, 255} : SetVersion(version)
    \/ ReplaceCRC(<<49, 50, 51, 52>>)
    \/ ParseImage

SpecDecode == Init /\ [][NextDecode]_vars

\* Decoding of headers that no frame compiles to: frames of the unit tests'
\* numbers from node 0x9E to everyone, with payloads of a plain byte, are
\* compiled and stripped of their framing; the header fields of the image
\* are replaced under a valid CRC, or the image is cut short, and the image
\* is parsed.
NextFields ==
    \/ \E f \in {g \in FrameArguments :
                    /\ g.end_of_transfer
                    /\ g.priority = 0
                    /\ g.source_node_id = <<FRAME_DELIMITER_BYTE>>
                    /\ g.destination_node_id = <<>>
                    /\ \A k \in 1 .. Len(g.payload) : g.payload[k] = 97} :
          NewFrame(f)
    \/ CompileFrame
    \/ StripFraming
    \/ \E fields \in HeaderFields : RewriteHeader(fields)
    \/ \E n \in {0, NUM_OVERHEAD_BYTES_EXCEPT_DELIMITERS_AND_ESCAPING - 1} : Truncate(n)
    \/ ParseImage

SpecFields == Init /\ [][NextFields]_vars

\* The constructor on arguments in and out of range; a frame it returns is
\* compiled.
NextCheck ==
    \/ \E f \in CheckedArguments : NewFrame(f)
    \/ CompileFrame

SpecCheck == Init /\ [][NextCheck]_vars

\* The stream parser: frames of the unit tests' numbers from node 0x9E to
\* node 0x8E, with the longest payloads of one byte repeated, are compiled
\* and reach a new parser behind garbage, byte by byte.
NextResync ==
    \/ \E f \in {g \in FrameArguments :
                    /\ g.end_of_transfer
                    /\ g.priority = 0
                    /\ g.source_node_id = <<FRAME_DELIMITER_BYTE>>
                    /\ g.destination_node_id = <<ESCAPE_PREFIX_BYTE>>
                    /\ g.data_specifier.kind = "message"
                    /\ Len(g.payload) = MaxPayload
                    /\ \A k \in 1 .. Len(g.payload) : g.payload[k] = g.payload[1]} :
          NewFrame(f)
    \/ CompileFrame
    \/ \E garbage \in Garbage : Feed(garbage)
    \/ ProcessNextByte

SpecResync == Init /\ [][NextResync]_vars

\* The scratch buffer: an output session of a message subject, a coroutine
\* that sends a transfer of frames of any of the sizes, and the clock.
NextBuffer ==
    \/ GetOutputSession(<<"msg", None>>)
    \/ \E n \in 1 .. MaxSessions, frames \in SizedTransfers, monotonic_deadline \in Deadlines :
          StartSend("t1", n, frames, monotonic_deadline)
    \/ Enter("t1")
    \/ AcquireLock("t1")
    \/ PortWrite("t1")
    \/ Resume("t1")
    \/ Tick

SpecBuffer == Init /\ [][NextBuffer]_vars

\* The reader thread while close() runs on the event loop: an input
\* session, the thread, the callbacks it has posted, which the event loop
\* runs between its other handlers, and close() in its two steps.  The
\* thread is scheduled by the operating system, a read returns or raises
\* within the read timeout, and close() is straight-line code, so each of
\* these steps is taken once it is reached.
NextShutdown ==
    \/ ~CloseRunning /\ GetInputSession(<<"msg", None>>)
    \/ ReaderLoop
    \/ ReaderReadReturns
    \/ ReaderSetClosed
    \/ ReaderClosePort
    \/ ~CloseRunning /\ HandleReceivedItem
    \/ CloseSetClosed
    \/ CloseSerialPort

SpecShutdown ==
    /\ Init
    /\ [][NextShutdown]_vars
    /\ WF_vars(ReaderLoop)
    /\ WF_vars(ReaderReadReturns)
    /\ WF_vars(ReaderSetClosed)
    /\ WF_vars(ReaderClosePort)
    /\ WF_vars(CloseSerialPort)

\* The byte counts that cross from the reader thread to the event loop: an
\* input session, a reader that reads one chunk more than elsewhere, of
\* nothing, of out-of-band data, of a frame or of both, and which may fail,
\* the posted callbacks and close().
CountedChunks ==
    {c \in Chunks :
        \/ c.items = <<>>
        \/ c.items = <<OutOfBandItem(1)>>
        \/ \E i \in 1 .. Len(c.items) :
              /\ c.items[i].kind = "frame"
              /\ c.items[i].frame.source_node_id = "n2"
              /\ c.items[i].frame.destination_node_id = "n1"}

NextCounted ==
    \/ GetInputSession(<<"msg", None>>)
    \/ ReaderLoop
    \/ \E chunk \in CountedChunks : ReaderReadWithin(chunk, MaxReads + 1)
    \/ ReaderRaise
    \/ ReaderSetClosed
    \/ ReaderClosePort
    \/ HandleReceivedItem
    \/ Close

SpecCounted == Init /\ [][NextCounted]_vars

\* The send path under fair scheduling: the output session of a service, a
\* coroutine that sends the longest transfer, another that competes with
\* one frame, close() and the clock.  The event loop runs every coroutine
\* that can take the lock or that has the result of its write to take, and
\* a write the executor has been given returns or raises.
NextLock ==
    \/ GetOutputSession(<<"srv", "n2">>)
    \/ \E t \in Senders, n \in 1 .. MaxSessions, monotonic_deadline \in Deadlines :
          StartSend(t, n, [k \in 1 .. (IF t = "t1" THEN MaxFrames ELSE 1) |-> FrameAt(k)],
                    monotonic_deadline)
    \/ \E t \in Tasks : Enter(t)
    \/ \E t \in Tasks : AcquireLock(t)
    \/ \E t \in Tasks : PortWrite(t)
    \/ \E t \in Tasks : Resume(t)
    \/ Close
    \/ Tick

SpecLock ==
    /\ Init
    /\ [][NextLock]_vars
    /\ \A t \in Tasks :
          /\ WF_vars(AcquireLock(t))
          /\ WF_vars(PortWrite(t))
          /\ WF_vars(Resume(t))

(***************************************************************************)
(* Properties                                                              *)
(***************************************************************************)

\* C1 (routing): when the event loop handles a received frame, the frame is
\* delivered to a session (once) if and only if the frame's destination is
\* the local node-ID or absent and the session is registered in the input
\* registry under (data specifier, source) or (data specifier, absent);
\* every other session is left as it was, so a frame with any other
\* destination is delivered to no session.
FrameRouting ==
    [][(posted # <<>> /\ posted' = Tail(posted) /\ Head(posted).item.kind = "frame") =>
          LET frame    == Head(posted).item.frame
              accepted == \/ frame.destination_node_id = local_node_id
                          \/ frame.destination_node_id = None
          IN  /\ Len(sessions') = Len(sessions)
              /\ \A n \in 1 .. Len(sessions) :
                    LET registered ==
                            \E ss \in DOMAIN input_registry :
                                /\ input_registry[ss] = n
                                /\ ss[1] = frame.data_specifier
                                /\ ss[2] = frame.source_node_id \/ ss[2] = None
                    IN  IF accepted /\ registered
                        THEN sessions'[n] =
                                 [sessions[n] EXCEPT !.processed =
                                     Append(@, Head(posted).seq)]
                        ELSE sessions'[n] = sessions[n]]_vars

\* A frame has been delivered to two sessions at once: the one registered
\* under its source and the one registered under the absent source.
FrameRoutingWitness ==
    \E n, m \in 1 .. Len(sessions) :
        /\ n # m
        /\ sessions[n].specifier[2] = None
        /\ sessions[m].specifier[2] # None
        /\ sessions[n].processed # <<>>
        /\ sessions[n].processed = sessions[m].processed

\* C2 (closed is terminal): once the engine is closed, by close() or by a
\* failure of the reader, it stays closed; a get_input_session or
\* get_output_session made then raises ResourceClosedError and adds no
\* registry entry; a _send_transfer that starts then (directly or as a pass
\* of the service wrapper) raises ResourceClosedError without a write to the
\* port and without a change of an out_* counter.
ClosedIsTerminal ==
    [][closed =>
          /\ closed'
          /\ DOMAIN input_registry' \subseteq DOMAIN input_registry
          /\ DOMAIN output_registry' \subseteq DOMAIN output_registry
          /\ (/\ last_call' # last_call
              /\ last_call'.op \in {"get_input_session", "get_output_session"}) =>
                  /\ last_call'.outcome = "ResourceClosedError"
                  /\ UNCHANGED <<input_registry, output_registry, sessions>>
          /\ \A t \in Tasks :
                (task[t].pc = "enter" /\ task'[t] # task[t]) =>
                    /\ task'[t].pc = "done"
                    /\ task'[t].outcome = "ResourceClosedError"
                    /\ task'[t].returns =
                           Append(task[t].returns,
                                  [raised |-> "ResourceClosedError", ts |-> <<>>])
                    /\ UNCHANGED <<link, write_timeout, port_lock, statistics>>]_vars

\* The reader has failed and closed the engine, close() was never called,
\* and since then a send and a get_*_session have raised ResourceClosedError
\* with nothing written to the port.
ClosedIsTerminalWitness ==
    /\ closed
    /\ close_calls = 0
    /\ link = <<>>
    /\ task["t1"].returns = <<[raised |-> "ResourceClosedError", ts |-> <<>>]>>
    /\ last_call.outcome = "ResourceClosedError"
    /\ output_registry # EmptyRegistry

\* C3 (close): a call of close() sets the closed flag, closes the port and
\* closes each session that is in the input or the output registry at that
\* moment exactly once, leaving every other session alone, and raises
\* nothing; a call after the first changes neither the flag, nor the
\* registries, nor the port, nor any session.
CloseClosesAll ==
    [][close_calls' # close_calls =>
          /\ closed'
          /\ ~port_open'
          /\ last_call' = CallReturned("close", <<>>, 0)
          /\ Len(sessions') = Len(sessions)
          /\ \A n \in 1 .. Len(sessions) :
                LET registered ==
                        \/ \E ss \in DOMAIN input_registry : input_registry[ss] = n
                        \/ \E ss \in DOMAIN output_registry : output_registry[ss] = n
                IN  sessions'[n] = IF registered
                                   THEN [sessions[n] EXCEPT !.closes = @ + 1]
                                   ELSE sessions[n]
          /\ close_calls > 0 =>
                UNCHANGED <<closed, port_open, input_registry, output_registry,
                            sessions>>]_vars

\* close() has been called twice on an engine that had an input and an
\* output session: both are closed once, the port is closed.
CloseClosesAllWitness ==
    /\ close_calls = 2
    /\ closed
    /\ ~port_open
    /\ \E n, m \in 1 .. Len(sessions) :
          /\ sessions[n].kind = "in"
          /\ sessions[m].kind = "out"
          /\ sessions[n].closes = 1
          /\ sessions[m].closes = 1
    /\ input_registry = EmptyRegistry
    /\ output_registry = EmptyRegistry

\* C4 (session creation is idempotent): every registry entry holds a
\* session of the registry's kind whose specifier is the entry's key, and no
\* session is held twice; the session a get_input_session (get_output_session)
\* returned is the registry's entry for that specifier for as long as no
\* finalizer runs.  A call for a specifier that has an entry returns that
\* very session and changes no registry and no session; a call for a
\* specifier without an entry adds that one entry, holding a new session,
\* and keeps every other entry of both registries.
SessionCreationIdempotent ==
    /\ [](/\ \A ss \in DOMAIN input_registry :
                /\ input_registry[ss] \in 1 .. Len(sessions)
                /\ sessions[input_registry[ss]].kind = "in"
                /\ sessions[input_registry[ss]].specifier = ss
          /\ \A ss \in DOMAIN output_registry :
                /\ output_registry[ss] \in 1 .. Len(sessions)
                /\ sessions[output_registry[ss]].kind = "out"
                /\ sessions[output_registry[ss]].specifier = ss
          /\ (last_call.op = "get_input_session" /\ last_call.outcome = "returned") =>
                /\ last_call.specifier \in DOMAIN input_registry
                /\ input_registry[last_call.specifier] = last_call.session
          /\ (last_call.op = "get_output_session" /\ last_call.outcome = "returned") =>
                /\ last_call.specifier \in DOMAIN output_registry
                /\ output_registry[last_call.specifier] = last_call.session)
    /\ [][(/\ last_call' # last_call
           /\ last_call'.op \in {"get_input_session", "get_output_session"}
           /\ last_call'.outcome = "returned") =>
             LET specifier == last_call'.specifier
                 session   == last_call'.session
                 input     == last_call'.op = "get_input_session"
                 before    == IF input THEN input_registry ELSE output_registry
                 after     == IF input THEN input_registry' ELSE output_registry'
             IN  /\ IF input
                    THEN output_registry' = output_registry
                    ELSE input_registry' = input_registry
                 /\ IF specifier \in DOMAIN before
                    THEN /\ session = before[specifier]
                         /\ after = before
                         /\ sessions' = sessions
                    ELSE /\ session = Len(sessions) + 1
                         /\ Len(sessions') = Len(sessions) + 1
                         /\ \A n \in 1 .. Len(sessions) : sessions'[n] = sessions[n]
                         /\ DOMAIN after = DOMAIN before \cup {specifier}
                         /\ after[specifier] = session
                         /\ \A ss \in DOMAIN before : after[ss] = before[ss]]_vars

\* A get_input_session has returned the first session after a second input
\* session was made: a repeated call for the first specifier, which got the
\* session of the first call while both entries are in the registry.
SessionCreationIdempotentWitness ==
    /\ ~closed
    /\ Len(sessions) = 2
    /\ sessions[2].kind = "in"
    /\ last_call.op = "get_input_session"
    /\ last_call.outcome = "returned"
    /\ last_call.session = 1
    /\ Cardinality(DOMAIN input_registry) = 2

\* C5 (finalizer): closing a session removes the entry under that session's
\* own specifier from the registry of its kind and changes no other entry
\* of either registry; the next get_input_session (get_output_session) for
\* that specifier on the open engine makes a new session, not closed, and
\* registers it, while the closed one stays as it is.
FinalizerRemovesOwnEntry ==
    [][/\ (last_call' # last_call /\ last_call'.op = "session.close") =>
             LET s      == sessions[last_call'.session]
                 before == IF s.kind = "in" THEN input_registry ELSE output_registry
                 after  == IF s.kind = "in" THEN input_registry' ELSE output_registry'
             IN  /\ s.specifier \in DOMAIN before
                 /\ before[s.specifier] = last_call'.session
                 /\ DOMAIN after = DOMAIN before \ {s.specifier}
                 /\ \A ss \in DOMAIN after : after[ss] = before[ss]
                 /\ IF s.kind = "in"
                    THEN output_registry' = output_registry
                    ELSE input_registry' = input_registry
       /\ \A kind \in {"in", "out"} :
             LET op     == IF kind = "in" THEN "get_input_session" ELSE "get_output_session"
                 before == IF kind = "in" THEN input_registry ELSE output_registry
                 after  == IF kind = "in" THEN input_registry' ELSE output_registry'
                 closedBefore ==
                     {m \in 1 .. Len(sessions) :
                         /\ sessions[m].kind = kind
                         /\ sessions[m].specifier = last_call'.specifier
                         /\ sessions[m].closes > 0}
             IN  (/\ last_call' # last_call
                  /\ last_call'.op = op
                  /\ last_call'.outcome = "returned"
                  /\ closedBefore # {}
                  /\ last_call'.specifier \notin DOMAIN before) =>
                     /\ last_call'.session \notin 1 .. Len(sessions)
                     /\ last_call'.session \in 1 .. Len(sessions')
                     /\ sessions'[last_call'.session].closes = 0
                     /\ sessions'[last_call'.session].specifier = last_call'.specifier
                     /\ after[last_call'.specifier] = last_call'.session
                     /\ \A m \in closedBefore : sessions'[m] = sessions[m]]_vars

\* A session was closed and a new session is registered under its
\* specifier on the open engine.
FinalizerRemovesOwnEntryWitness ==
    /\ ~closed
    /\ \E m, n \in 1 .. Len(sessions) :
          /\ m # n
          /\ sessions[m].kind = "in"
          /\ sessions[n].kind = "in"
          /\ sessions[m].specifier = sessions[n].specifier
          /\ sessions[m].closes = 1
          /\ sessions[n].closes = 0
          /\ sessions[n].specifier \in DOMAIN input_registry
          /\ input_registry[sessions[n].specifier] = n

\* C6 (send result): a _send_transfer that was given frames and has
\* returned normally returned a timestamp if and only if the port took every
\* frame of the transfer in full; a write that timed out or took fewer
\* bytes than it was given is the last write of its call, which returns no
\* timestamp and does not raise; a returned timestamp is the instant read
\* when the first frame's write came back.
SendResult ==
    /\ \A t \in Tasks : \A k \in 1 .. Len(task[t].returns) :
          LET tk      == task[t]
              r       == tk.returns[k]
              writes  == {i \in 1 .. Len(link) : link[i].task = t /\ link[i].pass = k - 1}
              Full(i) == \/ link[i].result = "None"
                         \/ link[i].result = "int" /\ link[i].written = link[i].length
              allFull == \A j \in 1 .. Len(tk.frames) :
                             \E i \in writes : link[i].index = j /\ Full(i)
          IN  (r.raised = "none" /\ tk.frames # <<>>) =>
                  /\ r.ts # <<>> <=> allFull
                  /\ r.ts # <<>> =>
                        \E i \in writes : link[i].index = 1 /\ r.ts = link[i].resumed
    /\ \A i \in 1 .. Len(link) :
          LET e     == link[i]
              tk    == task[e.task]
              short == \/ e.result = "SerialTimeoutException"
                       \/ e.result = "int" /\ e.written < e.length
              taken == ~(tk.pc = "resume" /\ tk.pass = e.pass /\ tk.index = e.index)
          IN  short =>
                  /\ \A j \in 1 .. Len(link) :
                        (link[j].task = e.task /\ link[j].pass = e.pass) =>
                            link[j].index <= e.index
                  /\ taken =>
                        /\ Len(tk.returns) > e.pass
                        /\ tk.returns[e.pass + 1] = [raised |-> "none", ts |-> <<>>]

\* A transfer of two frames has returned the timestamp 0 at time 1.
SendResultWitness ==
    \E t \in Tasks :
        /\ Len(task[t].frames) = 2
        /\ task[t].returns = <<[raised |-> "none", ts |-> <<0>>]>>
        /\ now = 1

\* C7 (transfer counters): a step in which a _send_transfer returns a
\* timestamp adds 1 to out_transfers and nothing to out_incomplete; one in
\* which it returns no timestamp adds 1 to out_incomplete and nothing to
\* out_transfers; one in which it raises, and every other step, changes
\* neither.
TransferCounters ==
    [][LET transfers  == statistics'.out_transfers - statistics.out_transfers
           incomplete == statistics'.out_incomplete - statistics.out_incomplete
           returning  == {t \in Tasks :
                             Len(task'[t].returns) = Len(task[t].returns) + 1}
       IN  /\ \A t \in Tasks \ returning : Len(task'[t].returns) = Len(task[t].returns)
           /\ returning = {} => transfers = 0 /\ incomplete = 0
           /\ \A t \in returning :
                 LET r == task'[t].returns[Len(task'[t].returns)]
                 IN  IF r.raised # "none" THEN transfers = 0 /\ incomplete = 0
                     ELSE IF r.ts # <<>> THEN transfers = 1 /\ incomplete = 0
                     ELSE transfers = 0 /\ incomplete = 1]_vars

\* The two passes of a service send: the first returned no timestamp, the
\* second a timestamp, and each counter has moved once.
TransferCountersWitness ==
    /\ Len(task["t1"].returns) = 2
    /\ task["t1"].returns[1] = [raised |-> "none", ts |-> <<>>]
    /\ task["t1"].returns[2].ts # <<>>
    /\ statistics.out_transfers = 1
    /\ statistics.out_incomplete = 1

\* C8 as the specification states it: a frame the port took in full adds
\* its encoded length to out_bytes and 1 to out_frames; a frame whose write
\* timed out or took fewer bytes adds nothing to out_bytes and nothing to
\* out_frames.
OnlyFullWritesCounted ==
    [][\A t \in Tasks :
          (task[t].pc = "resume" /\ task'[t].pc # "resume") =>
              LET wr     == task[t].write_result
                  length == CompiledLength(task[t].frames[task[t].index])
                  bytes  == statistics'.out_bytes - statistics.out_bytes
                  frames == statistics'.out_frames - statistics.out_frames
              IN  /\ (wr.kind = "int" /\ wr.num_written = length) =>
                        bytes = length /\ frames = 1
                  /\ (\/ wr.kind = "SerialTimeoutException"
                      \/ wr.kind = "int" /\ wr.num_written < length) =>
                        bytes = 0 /\ frames = 0]_vars

\* C8 (amended): out_frames grows by 1 exactly when a write comes back
\* having taken the whole frame (its count is the encoded length, or it
\* gives no count); out_bytes grows by the count the write gives: the
\* encoded length of a frame taken in full, the bytes taken of a frame
\* taken in part, nothing for a write that timed out, gave no count or
\* raised.  No other step changes the two counters.
BytesAsWritten ==
    [][LET bytes    == statistics'.out_bytes - statistics.out_bytes
           frames   == statistics'.out_frames - statistics.out_frames
           resuming == {t \in Tasks : task[t].pc = "resume" /\ task'[t].pc # "resume"}
       IN  /\ resuming = {} => bytes = 0 /\ frames = 0
           /\ \A t \in resuming :
                 LET wr     == task[t].write_result
                     length == CompiledLength(task[t].frames[task[t].index])
                 IN  /\ bytes = IF wr.kind = "int" THEN wr.num_written ELSE 0
                     /\ frames = IF \/ wr.kind = "int" /\ wr.num_written = length
                                    \/ wr.kind = "None"
                                 THEN 1 ELSE 0]_vars

\* The first frame of a transfer was taken one byte short: its bytes are
\* in out_bytes, no frame is counted and the transfer is incomplete.
BytesAsWrittenWitness ==
    /\ statistics.out_bytes = CompiledLength(FrameAt(1)) - 1
    /\ statistics.out_frames = 0
    /\ statistics.out_incomplete = 1

\* C9 (deadline): when a task comes to write a frame and the deadline minus
\* the clock is not positive, the step issues no write, leaves the port's
\* write timeout as it is and makes the call return no timestamp, counted
\* as incomplete, whatever was written before; a write is only ever issued
\* by a task whose deadline is ahead of the clock, and the clock never goes
\* back, so no later frame of the transfer is written either.
DeadlineExpired ==
    [][/\ now' >= now
       /\ \A t \in Tasks :
             (/\ task[t].pc = "lock"
              /\ task'[t] # task[t]
              /\ task[t].monotonic_deadline - now <= 0) =>
                 /\ link' = link
                 /\ write_timeout' = write_timeout
                 /\ task'[t].returns =
                        Append(task[t].returns, [raised |-> "none", ts |-> <<>>])
                 /\ task'[t].pc \in {"enter", "done"}
                 /\ statistics' = [statistics EXCEPT !.out_incomplete = @ + 1]
       /\ Len(link') # Len(link) =>
             LET e == link'[Len(link')]
             IN  /\ link' = Append(link, e)
                 /\ task[e.task].pc = "lock"
                 /\ task[e.task].pass = e.pass
                 /\ task[e.task].index = e.index
                 /\ task[e.task].monotonic_deadline - now > 0]_vars

\* The first frame of a two-frame transfer was written in full, the
\* deadline passed before the second, and the call returned no timestamp
\* with no write of the second frame.
DeadlineExpiredWitness ==
    \E t \in Tasks :
        /\ Len(task[t].frames) = 2
        /\ task[t].handler = "_send_transfer"
        /\ task[t].returns = <<[raised |-> "none", ts |-> <<>>]>>
        /\ now >= task[t].monotonic_deadline
        /\ \E i \in 1 .. Len(link) :
              /\ link[i].task = t
              /\ link[i].index = 1
              /\ link[i].result = "int"
              /\ link[i].written = link[i].length
        /\ \A i \in 1 .. Len(link) : link[i].task = t => link[i].index = 1

\* C10 (write serialisation): at most one write to the port is in flight;
\* a task that has a write in flight, or has not yet taken its result,
\* holds the lock; while a write is in flight the buffer holds the frame
\* that write was issued for, and every write the port has run took the
\* whole of the frame it was issued for, so the bytes of two frames never
\* mix; the buffer changes only in a step of a task that found the lock
\* free and took it.
WriteSerialisation ==
    /\ [](/\ Cardinality({i \in 1 .. Len(link) : link[i].result = "inflight"}) <= 1
          /\ \A t \in Tasks : task[t].pc \in {"write", "resume"} => port_lock = t
          /\ \A i \in 1 .. Len(link) :
                LET e == link[i]
                IN  IF e.result = "inflight"
                    THEN /\ port_lock = e.task
                         /\ serialization_buffer.holds = <<e.task, e.pass, e.index>>
                    ELSE e.data = <<e.task, e.pass, e.index>>)
    /\ [][serialization_buffer' # serialization_buffer =>
             /\ port_lock = None
             /\ \E t \in Tasks :
                   /\ task[t].pc = "lock"
                   /\ task'[t] # task[t]
                   /\ port_lock' \in {None, t}
                   /\ serialization_buffer'.holds[1] = t]_vars

\* One task has a write in flight while the other waits for the lock.
WriteSerialisationWitness ==
    /\ task["t1"].pc = "write"
    /\ task["t2"].pc = "lock"
    /\ port_lock = "t1"

\* C11 (frame order on the link): the writes of one _send_transfer call
\* reach the port in the order of its frame sequence, frame 1 first and
\* each next frame after the one before it; a task that takes the result
\* of a write gives up the lock in the same step and waits for the next
\* frame without the lock, so a write of another task can come between
\* two frames of one transfer.
FramesInOrder ==
    /\ [](/\ \A i, j \in 1 .. Len(link) :
                (i < j /\ link[i].task = link[j].task /\ link[i].pass = link[j].pass) =>
                    link[i].index < link[j].index
          /\ \A j \in 1 .. Len(link) :
                link[j].index > 1 =>
                    \E i \in 1 .. j - 1 :
                        /\ link[i].task = link[j].task
                        /\ link[i].pass = link[j].pass
                        /\ link[i].index = link[j].index - 1
          /\ \A t \in Tasks : task[t].pc = "lock" => port_lock # t)
    /\ [][\A t \in Tasks :
             (task[t].pc = "resume" /\ task'[t].pc # "resume") =>
                 port_lock = t /\ port_lock' = None]_vars

\* The single frame of the second task was written between the two frames
\* of the first task's transfer.
FramesInOrderWitness ==
    \E i, j, k \in 1 .. Len(link) :
        /\ i < j
        /\ j < k
        /\ link[i].task = "t1" /\ link[i].index = 1
        /\ link[j].task = "t2" /\ link[j].index = 1 /\ link[j].result = "int"
        /\ link[k].task = "t1" /\ link[k].index = 2 /\ link[k].pass = link[i].pass

\* C12 (receive order): the callbacks waiting on the event loop are the
\* items the parser has emitted and the loop has not handled yet, in the
\* order of emission; the loop handles the item emitted right after the
\* ones it has handled; and the frames a session has processed are in the
\* order of emission.
ReceiveOrder ==
    /\ [](/\ \A k \in 1 .. Len(posted) :
                posted[k].seq = reader.emitted - Len(posted) + k
          /\ \A n \in 1 .. Len(sessions) :
                \A i, j \in 1 .. Len(sessions[n].processed) :
                    i < j => sessions[n].processed[i] < sessions[n].processed[j])
    /\ [][(posted # <<>> /\ posted' = Tail(posted)) =>
             LET handled == reader.emitted - Len(posted)
             IN  /\ Head(posted).seq = handled + 1
                 /\ \A n \in 1 .. Len(sessions) :
                       \/ sessions'[n].processed = sessions[n].processed
                       \/ sessions'[n].processed =
                              Append(sessions[n].processed, handled + 1)]_vars

\* A session has processed the second and the third item of a read whose
\* first item was out-of-band data, while the session of the other source
\* has processed one of them.
ReceiveOrderWitness ==
    /\ statistics.in_out_of_band_bytes = 1
    /\ \E n, m \in 1 .. Len(sessions) :
          /\ sessions[n].processed = <<2, 3>>
          /\ Len(sessions[m].processed) = 1

StatisticsMonotonic ==
    [][/\ statistics'.in_bytes >= statistics.in_bytes
       /\ statistics'.in_frames >= statistics.in_frames
       /\ statistics'.in_out_of_band_bytes >= statistics.in_out_of_band_bytes
       /\ statistics'.out_bytes >= statistics.out_bytes
       /\ statistics'.out_frames >= statistics.out_frames
       /\ statistics'.out_transfers >= statistics.out_transfers
       /\ statistics'.out_incomplete >= statistics.out_incomplete]_vars

\* Every counter has been increased, a write after a larger one has been
\* counted, and the engine has been closed.
StatisticsMonotonicWitness ==
    /\ statistics.in_bytes > 0
    /\ statistics.in_frames > 0
    /\ statistics.in_out_of_band_bytes > 0
    /\ statistics.out_bytes > CompiledLength(FrameAt(1))
    /\ statistics.out_frames > 1
    /\ statistics.out_transfers > 0
    /\ statistics.out_incomplete > 0
    /\ closed

\* C15 (reader failure): once the reader thread has caught an exception,
\* the engine gets closed, the port gets closed and the thread exits; the
\* thread has set the closed flag before it closes the port, an exited
\* thread stays exited, and the steps of the except clause change neither
\* the outcome of an API call nor a sending coroutine.
ReaderFailure ==
    /\ (reader.pc = "except") ~> (closed /\ ~port_open /\ reader.pc = "exited")
    /\ [](reader.pc = "close_port" => closed)
    /\ [][/\ reader.pc = "exited" => reader'.pc = "exited"
          /\ (reader.pc \in {"except", "close_port"} /\ reader'.pc # reader.pc) =>
                /\ last_call' = last_call
                /\ task' = task
                /\ reader'.pc = IF reader.pc = "except" THEN "close_port" ELSE "exited"]_vars

\* The reader thread has failed on an open engine and has exited, and the
\* engine and the port are closed although close() has not been called.
ReaderFailureWitness ==
    /\ reader.pc = "exited"
    /\ closed
    /\ ~port_open
    /\ close_calls = 0

\* C16 as claimed (write error closes the engine): when a send has ended
\* with the error its write raised, the engine is closed.
WriteErrorCloses ==
    \A t \in Tasks :
        (task[t].pc = "done" /\ task[t].outcome = "SerialException") => closed

\* C16 as amended (write error leaves the engine open): the step in which a
\* send ends on the error of its write does not change the closed flag and,
\* on an open engine, raises that error; the flag is set by close() only;
\* and no send ends on the resource-closed error while the engine is open.
WriteErrorLeavesOpen ==
    /\ [][/\ \A t \in Tasks :
                (/\ task[t].pc = "resume"
                 /\ task[t].write_result.kind = "SerialException"
                 /\ task'[t].pc = "done") =>
                    /\ closed' = closed
                    /\ port_open' = port_open
                    /\ ~closed => task'[t].outcome = "SerialException"
          /\ (~closed /\ closed') =>
                (close_calls = 0 /\ close_calls' = 1 /\ last_call'.op = "close")]_vars
    /\ [](\A t \in Tasks : task[t].outcome = "ResourceClosedError" => closed)

\* A send has ended on the error of its write, and on the still open engine
\* the other coroutine has then taken the lock, written its frame in full
\* and returned the timestamp.
WriteErrorLeavesOpenWitness ==
    /\ ~closed
    /\ task["t1"].pc = "done"
    /\ task["t1"].outcome = "SerialException"
    /\ task["t2"].pc = "done"
    /\ task["t2"].outcome = "returned"
    /\ task["t2"].result # <<>>
    /\ \E i, j \in 1 .. Len(link) :
          /\ i < j
          /\ link[i].task = "t1"
          /\ link[i].result = "SerialException"
          /\ link[j].task = "t2"
          /\ link[j].result = "int"
          /\ link[j].written = link[j].length

\* C17 (close racing a send): when a coroutine resumes from a write that
\* raised an error other than the write timeout, its send ends there, with
\* the resource-closed error if the engine is closed by then and with the
\* error of the write otherwise.
CloseRacingSend ==
    [][\A t \in Tasks :
          (/\ task[t].pc = "resume"
           /\ task[t].write_result.kind = "SerialException"
           /\ task'[t] # task[t]) =>
              /\ task'[t].pc = "done"
              /\ task'[t].result = <<>>
              /\ task'[t].outcome =
                    IF closed THEN "ResourceClosedError" ELSE "SerialException"]_vars

\* One send has ended on the error of its write while the engine was open;
\* close() has then run while the other send was past its closed test, and
\* that send's write has raised and the send has ended on the
\* resource-closed error.
CloseRacingSendWitness ==
    /\ closed
    /\ task["t1"].pc = "done"
    /\ task["t1"].outcome = "SerialException"
    /\ task["t2"].pc = "done"
    /\ task["t2"].outcome = "ResourceClosedError"
    /\ \E i, j \in 1 .. Len(link) :
          /\ i < j
          /\ link[i].task = "t1"
          /\ link[i].result = "SerialException"
          /\ link[j].task = "t2"
          /\ link[j].result = "SerialException"

\* C18 (codec round trip): the frame parsed from the un-escaped inside of
\* what compile_into wrote has the priority, the node-IDs, the data
\* specifier, the data type hash, the transfer-ID, the index, the
\* end-of-transfer flag and the payload of the frame that was compiled.
CodecRoundTrip ==
    codec.pc = "parsed" =>
        /\ codec.parsed # <<>>
        /\ LET F == codec.frame[1]
               P == codec.parsed[1]
           IN  /\ P.priority = F.priority
               /\ P.source_node_id = F.source_node_id
               /\ P.destination_node_id = F.destination_node_id
               /\ P.data_specifier.kind = F.data_specifier.kind
               /\ P.data_specifier.id = F.data_specifier.id
               /\ P.data_specifier.role = F.data_specifier.role
               /\ P.data_type_hash = F.data_type_hash
               /\ P.transfer_id = F.transfer_id
               /\ P.index = F.index
               /\ P.end_of_transfer = F.end_of_transfer
               /\ P.payload = F.payload

\* A service response without a destination, with an index above 2^16, the
\* end-of-transfer flag and a payload of the two special bytes has been
\* compiled with escapes and parsed back.
CodecRoundTripWitness ==
    /\ codec.pc = "parsed"
    /\ codec.frame[1].data_specifier = ServiceDataSpecifier(123, "RESPONSE")
    /\ codec.frame[1].source_node_id = <<FRAME_DELIMITER_BYTE>>
    /\ codec.frame[1].destination_node_id = <<>>
    /\ codec.frame[1].index = <<54919, 18>>
    /\ codec.frame[1].end_of_transfer
    /\ codec.frame[1].payload = <<FRAME_DELIMITER_BYTE, ESCAPE_PREFIX_BYTE>>
    /\ Len(codec.compiled) > Len(codec.image) + 2
    /\ codec.parsed # <<>>

\* C19 (framing): what compile_into wrote begins and ends with 0x9E and
\* has no 0x9E in between; byte k of header, payload and payload CRC stands
\* after the first delimiter, the bytes before it and one more byte for
\* every 0x9E or 0x8E before it, as itself, or as 0x8E and its inverse if
\* it is 0x9E or 0x8E; every 0x8E written is followed by 0x61 or 0x71; and
\* the length is 2 + 36 + the payload length + the number of escaped bytes.
Framing ==
    codec.pc \in {"compiled", "image", "parsed"} =>
        LET out      == codec.compiled
            F        == codec.frame[1]
            plain    == Image(F)
            special  == {k \in 1 .. Len(plain) : plain[k] \in {158, 142}}
            at(k)    == 1 + k + Cardinality({j \in special : j < k})
        IN  /\ out[1] = 158
            /\ out[Len(out)] = 158
            /\ \A p \in 2 .. Len(out) - 1 : out[p] # 158
            /\ Len(plain) = 36 + Len(F.payload)
            /\ \A k \in 1 .. Len(plain) :
                  IF k \in special
                  THEN out[at(k)] = 142 /\ out[at(k) + 1] = 255 - plain[k]
                  ELSE out[at(k)] = plain[k]
            /\ \A p \in 2 .. Len(out) - 1 :
                  out[p] = 142 => (p + 1 < Len(out) /\ out[p + 1] \in {97, 113})
            /\ Len(out) = 2 + (36 + Len(F.payload)) + Cardinality(special)

\* A frame with 0x9E and 0x8E in its node-IDs and in its payload has been
\* compiled: both escape pairs are in the output.
FramingWitness ==
    /\ codec.pc = "compiled"
    /\ codec.frame[1].source_node_id = <<158>>
    /\ codec.frame[1].destination_node_id = <<142>>
    /\ codec.frame[1].payload = <<142, 158>>
    /\ Len(codec.compiled) >= 2 + 36 + 2 + 4
    /\ \E p, q \in 2 .. Len(codec.compiled) - 2 :
          /\ codec.compiled[p] = 142 /\ codec.compiled[p + 1] = 97
          /\ codec.compiled[q] = 142 /\ codec.compiled[q + 1] = 113

\* C20 (decode rejection): the parser has returned no frame for every
\* image of fewer than 36 bytes, with a version byte other than 0, or with
\* a header or a payload whose CRC residue is wrong, and so for every image
\* that differs in one bit of its header or payload from one that the
\* parser accepts; the undamaged image it has accepted.
DecodeRejection ==
    codec.pc = "parsed" =>
        LET image == codec.image
        IN  /\ Len(image) < 36 => codec.parsed = <<>>
            /\ (Len(image) >= 36 /\ image[1] # 0) => codec.parsed = <<>>
            /\ (Len(image) >= 36 /\ ~CRCCheckResidue(SubSeq(image, 1, 32))) =>
                  codec.parsed = <<>>
            /\ (Len(image) >= 36 /\ ~CRCCheckResidue(SubSeq(image, 33, Len(image)))) =>
                  codec.parsed = <<>>
            /\ codec.damage = "bit" => codec.parsed = <<>>
            /\ codec.damage = "none" => codec.parsed = codec.frame

\* The parser has returned no frame for an image with one bit of its last
\* payload byte flipped, the rest being as compiled.
DecodeRejectionWitness ==
    /\ codec.pc = "parsed"
    /\ codec.damage = "bit"
    /\ codec.parsed = <<>>
    /\ Len(codec.image) = 36 + MaxPayload
    /\ codec.image[32 + MaxPayload] # codec.frame[1].payload[MaxPayload]
    /\ \A k \in 1 .. 32 : codec.image[k] = Header(codec.frame[1])[k]

ConstructionChecked ==
    LET Below(digits, n, top) ==
            \* 0 <= the number < 2^(16 * (n - 1)) * (top + 1)
            /\ Len(digits) = n
            /\ \A k \in 1 .. n - 1 : 0 <= digits[k] /\ digits[k] < 65536
            /\ 0 <= digits[n] /\ digits[n] <= top
        Violated(a) ==
            \/ a.source_node_id # <<>> /\ a.source_node_id[1] \notin 0 .. 4095
            \/ a.destination_node_id # <<>> /\ a.destination_node_id[1] \notin 0 .. 4095
            \/ a.data_specifier.kind = "service" /\ a.source_node_id = <<>>
            \/ ~Below(a.data_type_hash, 4, 65535)
            \/ ~Below(a.transfer_id, 4, 65535)
            \/ ~Below(a.index, 2, 32767)
    IN  /\ codec.arguments # <<>> =>
              /\ codec.pc = "ValueError" <=> Violated(codec.arguments[1])
              /\ codec.pc # "ValueError" => codec.frame = codec.arguments
        /\ codec.frame # <<>> => ~Violated(codec.frame[1])

\* The constructor has raised for a service without a source node-ID whose
\* other fields are the largest of their ranges.
ConstructionCheckedWitness ==
    /\ codec.pc = "ValueError"
    /\ codec.frame = <<>>
    /\ codec.arguments # <<>>
    /\ codec.arguments[1].data_specifier.kind = "service"
    /\ codec.arguments[1].source_node_id = <<>>
    /\ codec.arguments[1].destination_node_id = <<NODE_ID_MASK>>
    /\ codec.arguments[1].data_type_hash = <<65535, 65535, 65535, 65535>>
    /\ codec.arguments[1].transfer_id = <<65535, 65535, 65535, 65535>>
    /\ codec.arguments[1].index = <<65535, 32767>>

BufferSufficient ==
    /\ [](serialization_buffer.size >= 1024)
    /\ [](\A t \in Tasks : task[t].outcome # "IndexError")
    /\ [][/\ serialization_buffer'.size >= serialization_buffer.size
          /\ \A t \in Tasks :
                (task[t].pc = "lock" /\ task'[t] # task[t]) =>
                    LET fr == task[t].frames[task[t].index]
                    IN  /\ serialization_buffer'.size >= 2 + 2 * (36 + fr.payload)
                        /\ serialization_buffer'.size >= CompiledLength(fr)
                        /\ serialization_buffer'.holds = <<t, task[t].pass, task[t].index>>]_vars

\* The buffer has grown for a frame of 1000 bytes of payload whose compiled
\* form, every byte of the payload escaped, would not have fitted in twice
\* the payload, and the write of that frame has been issued.
BufferSufficientWitness ==
    \E t \in Tasks :
        /\ task[t].pc = "write"
        /\ serialization_buffer.holds = <<t, task[t].pass, task[t].index>>
        /\ task[t].frames[task[t].index].payload = 1000
        /\ CompiledLength(task[t].frames[task[t].index]) > 2 * 1000
        /\ serialization_buffer.size = 3000
        /\ link # <<>>
        /\ link[Len(link)].length = CompiledLength(task[t].frames[task[t].index])

\* C25 (reader shutdown): once close() has set the closed flag, the reader
\* thread eventually leaves its loop and exits; when the thread tests the
\* flag and finds it set it exits, and a thread that has exited reads
\* nothing more and posts nothing more: its byte count and its count of
\* items stay, and the queue of posted callbacks only gets shorter.
ReaderShutdown ==
    /\ closed ~> (reader.pc = "exited")
    /\ [][/\ (reader.pc = "loop" /\ closed /\ reader' # reader) => reader'.pc = "exited"
          /\ reader.pc = "exited" =>
                /\ reader' = reader
                /\ Len(posted') <= Len(posted)]_vars

\* The reader thread has read a chunk and posted its items, has then found
\* the flag set by a close() that has not closed the port yet, and has
\* exited.
ReaderShutdownWitness ==
    /\ reader.pc = "exited"
    /\ reader.reads > 0
    /\ posted # <<>>
    /\ closed
    /\ port_open
    /\ CloseRunning

\* C26 as stated (thread confinement): no step of the reader thread changes
\* the session registries, the sessions or a statistics counter; a step of
\* the reader thread changes nothing but the thread's own state (its
\* position, its byte count, its count of items) and the queue of posted
\* callbacks, which it only appends to; so every change of the registries
\* and of the in_* counters happens in a step of the event loop.
ReaderConfined ==
    [][reader' # reader =>
          /\ UNCHANGED <<input_registry, output_registry, sessions, statistics>>
          /\ UNCHANGED <<local_node_id, service_transfer_multiplier, closed, port_open, now>>
          /\ UNCHANGED <<write_timeout, port_lock, serialization_buffer, task, link>>
          /\ UNCHANGED <<last_call, close_calls>>
          /\ Len(posted') >= Len(posted)
          /\ SubSeq(posted', 1, Len(posted)) = posted]_vars

\* C26 as amended (thread confinement but for the failure of a read): no
\* step of the reader thread changes the session registries, the sessions
\* or a statistics counter; a step of the reader thread changes nothing but
\* the thread's own state and the queue of posted callbacks, which it only
\* appends to, except that the two statements of its except clause set the
\* closed flag and close the port; so every change of the registries and of
\* the in_* counters happens in a step of the event loop.
ReaderConfinedButForFailure ==
    [][reader' # reader =>
          /\ UNCHANGED <<input_registry, output_registry, sessions, statistics>>
          /\ UNCHANGED <<local_node_id, service_transfer_multiplier, now>>
          /\ UNCHANGED <<write_timeout, port_lock, serialization_buffer, task, link>>
          /\ UNCHANGED <<last_call, close_calls>>
          /\ Len(posted') >= Len(posted)
          /\ SubSeq(posted', 1, Len(posted)) = posted
          /\ closed' = IF reader.pc = "except" THEN TRUE ELSE closed
          /\ port_open' = IF reader.pc = "close_port" THEN FALSE ELSE port_open
          /\ reader.pc \in {"except", "close_port"} => posted' = posted]_vars

\* The thread has read a chunk of two items, which the event loop has
\* handled for a registered session, and a later read has failed: the
\* thread has closed the engine and the port, which close() has not.
ReaderConfinedButForFailureWitness ==
    /\ reader.pc = "exited"
    /\ reader.emitted = 2
    /\ posted = <<>>
    /\ statistics.in_frames = 1
    /\ statistics.in_bytes = reader.in_bytes_count
    /\ DOMAIN input_registry # {}
    /\ closed
    /\ ~port_open
    /\ close_calls = 0

\* C27 (the assertion on in_bytes): whenever the event loop handles a
\* posted item, in_bytes is at most the byte count the item carries, so the
\* assertion holds, and in_bytes becomes that count; every item is posted
\* with the byte count the reader thread has reached at that moment; so
\* in_bytes is never more than the count of any item still posted, nor than
\* the number of bytes the thread has read.
AssertionHolds ==
    /\ [](/\ statistics.in_bytes <= reader.in_bytes_count
          /\ \A k \in 1 .. Len(posted) :
                /\ statistics.in_bytes <= posted[k].in_bytes_count
                /\ posted[k].in_bytes_count <= reader.in_bytes_count)
    /\ [][/\ Len(posted') < Len(posted) =>
                /\ statistics.in_bytes <= Head(posted).in_bytes_count
                /\ statistics'.in_bytes = Head(posted).in_bytes_count
          /\ \A k \in Len(posted) + 1 .. Len(posted') :
                posted'[k].in_bytes_count = reader'.in_bytes_count]_vars

\* The event loop has handled a frame of the first chunk while an item of a
\* later chunk, with a larger byte count, waits: in_bytes is the count of
\* the first chunk and less than what the thread has read.
AssertionHoldsWitness ==
    /\ reader.reads = MaxReads + 1
    /\ posted # <<>>
    /\ statistics.in_frames > 0
    /\ statistics.in_bytes > 0
    /\ statistics.in_bytes < Head(posted).in_bytes_count
    /\ Head(posted).in_bytes_count = reader.in_bytes_count

\* C28 (no double delivery): when the event loop handles a frame, every
\* input session processes it once or not at all, and a frame without a
\* source node-ID that is accepted is processed exactly once by the session
\* registered for its data specifier and any source; so no session ever
\* processes a frame twice.
NoDoubleDelivery ==
    /\ [](\A n \in 1 .. Len(sessions) :
             \A i, j \in 1 .. Len(sessions[n].processed) :
                 i # j => sessions[n].processed[i] # sessions[n].processed[j])
    /\ [][(/\ posted # <<>>
           /\ posted' = Tail(posted)
           /\ Head(posted).item.kind = "frame") =>
             LET frame    == Head(posted).item.frame
                 wildcard == <<frame.data_specifier, None>>
             IN  \A n \in 1 .. Len(sessions) :
                     /\ \/ sessions'[n].processed = sessions[n].processed
                        \/ sessions'[n].processed =
                               Append(sessions[n].processed, Head(posted).seq)
                     /\ (/\ frame.source_node_id = None
                         /\ frame.destination_node_id \in {local_node_id, None}
                         /\ wildcard \in DOMAIN input_registry
                         /\ input_registry[wildcard] = n) =>
                            sessions'[n].processed =
                                Append(sessions[n].processed, Head(posted).seq)]_vars

\* Two frames have been handled: the session for node n2 has processed the
\* first, so it was registered before the second was handled, but not the
\* second, which had no source therefore; the session for any source has
\* processed the first once and the second once.
NoDoubleDeliveryWitness ==
    \E a, b \in 1 .. Len(sessions) :
        /\ sessions[a].specifier = <<"msg", "n2">>
        /\ sessions[a].processed = <<1>>
        /\ sessions[b].specifier = <<"msg", None>>
        /\ sessions[b].processed = <<1, 2>>
        /\ statistics.in_frames = 2

\* C29 (in_frames): the step in which the event loop handles a frame adds
\* exactly one to in_frames, whether or not the frame is addressed to this
\* node and whether or not a session is registered for it, and no other
\* step changes in_frames; so in_frames counts the frames handled, and no
\* session has processed more frames than in_frames.
InFramesCountsHandled ==
    /\ [](\A n \in 1 .. Len(sessions) : Len(sessions[n].processed) <= statistics.in_frames)
    /\ [][statistics'.in_frames =
             IF posted # <<>> /\ posted' = Tail(posted) /\ Head(posted).item.kind = "frame"
             THEN statistics.in_frames + 1
             ELSE statistics.in_frames]_vars

\* An anonymous engine has handled two frames addressed to node n1, which
\* no session has processed although one is registered for their data
\* specifier: in_frames is two.
InFramesCountsHandledWitness ==
    /\ local_node_id = None
    /\ statistics.in_frames = 2
    /\ posted = <<>>
    /\ DOMAIN input_registry # {}
    /\ \A n \in 1 .. Len(sessions) : sessions[n].processed = <<>>

\* C30 (empty transfer): when _send_transfer is entered on an open engine
\* with no frames, whatever the deadline and the time are and whoever holds
\* the write lock, it returns no timestamp in that step; the step issues no
\* write, leaves the write lock, the write timeout and the scratch buffer
\* as they are, and adds one to out_incomplete and nothing to any other
\* counter.
EmptyTransfer ==
    [][\A t \in Tasks :
          (/\ task[t].pc = "enter"
           /\ task[t].frames = <<>>
           /\ ~closed
           /\ task'[t] # task[t]) =>
              /\ task'[t].returns = Append(task[t].returns, [raised |-> "none", ts |-> <<>>])
              /\ task'[t].pc = "done" => (task'[t].outcome = "returned" /\ task'[t].result = <<>>)
              /\ link' = link
              /\ port_lock' = port_lock
              /\ write_timeout' = write_timeout
              /\ serialization_buffer' = serialization_buffer
              /\ statistics' = [statistics EXCEPT !.out_incomplete = @ + 1]]_vars

\* A send of no frames has returned no timestamp and has been counted as
\* incomplete, and as nothing else, while another coroutine held the write
\* lock for a write that is still in progress.
EmptyTransferWitness ==
    /\ task["t1"].pc = "done"
    /\ task["t1"].frames = <<>>
    /\ task["t1"].outcome = "returned"
    /\ task["t1"].result = <<>>
    /\ statistics = [NewStatistics EXCEPT !.out_incomplete = 1]
    /\ port_lock = "t2"
    /\ Len(link) = 1
    /\ link[1].result = "inflight"

\* C31 (write-lock release): a task holds the write lock only while its
\* write is in flight or its result not yet taken; the step that takes the
\* result of a write gives the lock up, whether the write was full, short,
\* timed out or raised, and so does the step that finds the deadline
\* expired; so no task holds the lock after its send has returned or
\* raised, and every task that waits for the lock eventually gets past it.
WriteLockReleased ==
    /\ [](\A t \in Tasks :
             port_lock = t => task[t].pc \in {"write", "resume"})
    /\ [][\A t \in Tasks :
             /\ (task[t].pc = "resume" /\ task'[t] # task[t]) =>
                   /\ port_lock = t
                   /\ port_lock' = None
             /\ (task[t].pc = "lock" /\ task'[t] # task[t] /\ task'[t].pc # "write") =>
                   port_lock' = None]_vars
    /\ \A t \in Tasks : (task[t].pc = "lock") ~> (task[t].pc # "lock")

\* The write of the first task has raised and its send has ended with the
\* error, and the second task, whose write came later, holds the lock for
\* a write in flight.
WriteLockReleasedWitness ==
    /\ Len(link) = 2
    /\ link[1].task = "t1"
    /\ link[1].result = "SerialException"
    /\ task["t1"].pc = "done"
    /\ task["t1"].outcome = "SerialException"
    /\ link[2].task = "t2"
    /\ link[2].result = "inflight"
    /\ task["t2"].pc = "write"
    /\ port_lock = "t2"

\* C32 (counter relations): out_transfers is never more than out_frames;
\* out_transfers + out_incomplete is the number of times _send_transfer has
\* returned, one for every pass of every send, and grows by one in the step
\* in which a pass returns and in no other step; a send through the
\* repeating handler that returns has had as many passes return as the
\* multiplier says, whatever the earlier passes returned, so it has added
\* exactly the multiplier to out_transfers + out_incomplete.
CounterRelations ==
    /\ [](LET Passes(t) == Cardinality({p \in 1 .. Len(task[t].returns) :
                                           task[t].returns[p].raised = "none"})
              Sum[T \in SUBSET Tasks] ==
                  IF T = {} THEN 0
                  ELSE LET t == CHOOSE x \in T : TRUE IN Passes(t) + Sum[T \ {t}]
          IN  /\ statistics.out_transfers <= statistics.out_frames
              /\ statistics.out_transfers + statistics.out_incomplete = Sum[Tasks]
              /\ \A t \in Tasks :
                    (/\ task[t].pc = "done"
                     /\ task[t].outcome = "returned"
                     /\ task[t].handler = "send_transfer") =>
                        /\ Passes(t) = service_transfer_multiplier
                        /\ Len(task[t].returns) = service_transfer_multiplier)
    /\ [][statistics'.out_transfers + statistics'.out_incomplete =
             statistics.out_transfers + statistics.out_incomplete
                 + (IF \E t \in Tasks :
                          /\ Len(task'[t].returns) = Len(task[t].returns) + 1
                          /\ task'[t].returns[Len(task'[t].returns)].raised = "none"
                    THEN 1 ELSE 0)]_vars

\* With multiplier two, a send of two frames has returned after a first
\* pass that was aborted and a second that was not: one transfer and one
\* incomplete transfer have been counted, and more frames than transfers.
CounterRelationsWitness ==
    /\ service_transfer_multiplier = 2
    /\ task["t1"].pc = "done"
    /\ task["t1"].outcome = "returned"
    /\ task["t1"].handler = "send_transfer"
    /\ Len(task["t1"].frames) = 2
    /\ task["t1"].returns[1].ts = <<>>
    /\ task["t1"].returns[2].ts # <<>>
    /\ statistics.out_transfers = 1
    /\ statistics.out_incomplete = 1
    /\ statistics.out_frames = 3

=============================================================================
